---- MODULE Spec2Model ----
(***************************************************************************)
(* Legend patcher front end: the fuzzy line matcher, the legend script     *)
(* parser, the patch executor with its choice dialog and the annotated     *)
(* result builder of src/components/Patcher.jsx, and the patcher by line   *)
(* numbers of src/components/LinePatcher.jsx.                              *)
(*                                                                         *)
(* A line of text is a sequence of characters (one-character strings, and  *)
(* the symbolic ZW for a zero-width code point).  A text is its sequence   *)
(* of lines, as String.split('\n') returns it.  Buffer indices are         *)
(* 0-based, as in the source: index i of a buffer is element i+1 of the    *)
(* sequence.                                                               *)
(***************************************************************************)
EXTENDS Integers, Sequences, FiniteSets

(* ------------------------------ bounds -------------------------------- *)

\* longest original text the user types, in lines
MaxLines == 2
\* longest legend script the user types, in directives
MaxOps == 2

(* ----------------------------- characters ------------------------------ *)

ZW == "ZW"
SP == " "
TAB == "\t"

\* null is the empty tuple and a value that may be null a tuple of one element
NULL == <<>>
Some(v) == <<v>>
Get(x) == x[1]

Min2(x, y) == IF x <= y THEN x ELSE y

\* elements i..j (1-based, inclusive) of s; empty when j < i
Slice(s, i, j) == IF j < i THEN <<>> ELSE SubSeq(s, i, j)

\* String.prototype.startsWith
StartsWith(s, p) == Len(s) >= Len(p) /\ SubSeq(s, 1, Len(p)) = p

\* the characters /\s/ and String.prototype.trim treat as white space
IsSpace(c) == c \in {SP, TAB}

\* the characters the first replace of normalize removes (U+200B-U+200D, U+FEFF)
IsZeroWidth(c) == c = ZW

\* String.prototype.toLowerCase, one character
ToLowerChar(c) == CASE c = "A" -> "a" [] c = "B" -> "b" [] c = "X" -> "x" [] OTHER -> c

RECURSIVE StripZeroWidth(_)
StripZeroWidth(s) ==
    IF s = <<>> THEN <<>>
    ELSE IF IsZeroWidth(Head(s)) THEN StripZeroWidth(Tail(s))
    ELSE <<Head(s)>> \o StripZeroWidth(Tail(s))

RECURSIVE TrimStart(_)
TrimStart(s) ==
    IF s # <<>> /\ IsSpace(Head(s)) THEN TrimStart(Tail(s)) ELSE s

RECURSIVE TrimEnd(_)
TrimEnd(s) ==
    IF s # <<>> /\ IsSpace(s[Len(s)]) THEN TrimEnd(SubSeq(s, 1, Len(s) - 1)) ELSE s

\* String.prototype.trim
Trim(s) == TrimEnd(TrimStart(s))

ToLowerCase(s) == [i \in 1..Len(s) |-> ToLowerChar(s[i])]

\* s.replace(/\s+/g, ' '): every maximal run of white space becomes one space
RECURSIVE CollapseSpaces(_)
CollapseSpaces(s) ==
    IF s = <<>> THEN <<>>
    ELSE IF IsSpace(Head(s)) THEN <<SP>> \o CollapseSpaces(TrimStart(Tail(s)))
    ELSE <<Head(s)>> \o CollapseSpaces(Tail(s))

\* the trim done before the zero-width characters are removed
normalizeTrimFirst(line) == CollapseSpaces(ToLowerCase(StripZeroWidth(Trim(line))))

normalize(line) == CollapseSpaces(ToLowerCase(Trim(StripZeroWidth(line))))

(* ----------------------------- levenshtein ----------------------------- *)

\* the row filled without the cell of the diagonal in the minimum
RECURSIVE LevRowNoSubstitution(_, _, _, _, _)
LevRowNoSubstitution(a, b, i, prev, row) ==
    LET j == Len(row)
    IN  IF j > Len(a) THEN row
        ELSE LevRowNoSubstitution(a, b, i, prev,
                 Append(row,
                     IF b[i] = a[j]
                     THEN prev[j]
                     ELSE Min2(row[j] + 1, prev[j + 1] + 1)))

\* row i of the matrix m, from row i-1 (prev); both hold m[.][0..Len(a)] at 1..Len(a)+1
RECURSIVE LevRow(_, _, _, _, _)
LevRow(a, b, i, prev, row) ==
    LET j == Len(row)
    IN  IF j > Len(a) THEN row
        ELSE LevRow(a, b, i, prev,
                 Append(row,
                     IF b[i] = a[j]
                     THEN prev[j]
                     ELSE Min2(prev[j] + 1, Min2(row[j] + 1, prev[j + 1] + 1))))

RECURSIVE LevRows(_, _, _, _)
LevRows(a, b, i, prev) ==
    IF i > Len(b) THEN prev
    ELSE LevRows(a, b, i + 1, LevRow(a, b, i, prev, <<i>>))

levenshtein(a, b) ==
    IF Len(a) = 0 THEN Len(b)
    ELSE IF Len(b) = 0 THEN Len(a)
    ELSE LevRows(a, b, 1, [j \in 1..(Len(a) + 1) |-> j - 1])[Len(a) + 1]

(* ------------------------------- matcher ------------------------------- *)

\* the line at 0-based index idx
At(lines, idx) == lines[idx + 1]

\* the 0-based indices of lines, ascending
Indices(lines) == [k \in 1..Len(lines) |-> k - 1]

\* the search that stops at the first line found
findFirstFuzzyMatch(lines, targetNorm) ==
    LET Hit(idx) == normalize(At(lines, idx)) = targetNorm
        hits == SelectSeq(Indices(lines), Hit)
    IN  IF hits = <<>> THEN <<>> ELSE <<hits[1]>>

findAllFuzzyMatches(lines, targetNorm) ==
    LET Hit(idx) == normalize(At(lines, idx)) = targetNorm
    IN  SelectSeq(Indices(lines), Hit)

\* d goes before the entries of its own distance: a sort that is not stable
RECURSIVE InsertBeforeTies(_, _)
InsertBeforeTies(sorted, d) ==
    IF sorted = <<>> THEN <<d>>
    ELSE IF Head(sorted).dist - d.dist >= 0 THEN <<d>> \o sorted
    ELSE <<Head(sorted)>> \o InsertBeforeTies(Tail(sorted), d)

\* d goes behind every entry that does not compare greater: the sort is stable
RECURSIVE InsertByDist(_, _)
InsertByDist(sorted, d) ==
    IF sorted = <<>> THEN <<d>>
    ELSE IF Head(sorted).dist - d.dist > 0 THEN <<d>> \o sorted
    ELSE <<Head(sorted)>> \o InsertByDist(Tail(sorted), d)

\* distances.sort((a, b) => a.dist - b.dist)
RECURSIVE SortByDist(_)
SortByDist(ds) ==
    IF ds = <<>> THEN <<>>
    ELSE InsertByDist(SortByDist(SubSeq(ds, 1, Len(ds) - 1)), ds[Len(ds)])

\* Math.floor(targetNorm.length / 2) || 1
Threshold(targetNorm) ==
    IF Len(targetNorm) \div 2 = 0 THEN 1 ELSE Len(targetNorm) \div 2

findLineMatches(lines, target) ==
    LET targetNorm == normalize(target)
        exactMatches == findAllFuzzyMatches(lines, targetNorm)
        distances == [k \in 1..Len(lines) |->
                        [idx |-> k - 1, text |-> lines[k],
                         dist |-> levenshtein(normalize(lines[k]), targetNorm)]]
        threshold == Threshold(targetNorm)
        Near(d) == d.dist <= threshold
    IN  IF Len(exactMatches) > 0
        THEN [exact |-> exactMatches, close |-> <<>>]
        ELSE [exact |-> <<>>, close |-> SelectSeq(SortByDist(distances), Near)]

(* ---------------------------- legend script ---------------------------- *)

\* the directive prefixes, as character sequences
PrefixD == <<"D", "-">>
PrefixM == <<"M", "-">>
PrefixMPlus == <<"M", "+", "-">>
PrefixAF == <<"A", "F", "+">>
PrefixNAD == <<"N", "A", "D", "+">>

\* raw.slice(n).trim()
SliceTrim(raw, n) == Trim(Slice(raw, n + 1, Len(raw)))

\* an if in place of the inner while: at most one continuation line is taken
ContinuationOnce(lines, i, prefix) ==
    IF i < Len(lines) /\ StartsWith(Trim(At(lines, i)), prefix)
    THEN <<SliceTrim(Trim(At(lines, i)), Len(prefix))>>
    ELSE <<>>

\* the inner while loops: the run of lines from 0-based i on that start with prefix
RECURSIVE Continuation(_, _, _)
Continuation(lines, i, prefix) ==
    IF i < Len(lines) /\ StartsWith(Trim(At(lines, i)), prefix)
    THEN <<SliceTrim(Trim(At(lines, i)), Len(prefix))>> \o Continuation(lines, i + 1, prefix)
    ELSE <<>>

\* the outer loop left at the first line that is no directive
RECURSIVE ParseFromStopping(_, _)
ParseFromStopping(lines, i) ==
    IF ~(i < Len(lines)) THEN <<>>
    ELSE LET raw == Trim(At(lines, i))
         IN  IF StartsWith(raw, PrefixD)
             THEN <<[type |-> "delete", content |-> SliceTrim(raw, 2)]>>
                  \o ParseFromStopping(lines, i + 1)
             ELSE IF StartsWith(raw, PrefixM)
             THEN LET newLines == Continuation(lines, i + 1, PrefixMPlus)
                  IN  <<[type |-> "replace", oldLines |-> <<SliceTrim(raw, 2)>>,
                         newLines |-> newLines]>>
                      \o ParseFromStopping(lines, i + 1 + Len(newLines))
             ELSE IF StartsWith(raw, PrefixAF)
             THEN LET newLines == Continuation(lines, i + 1, PrefixNAD)
                  IN  <<[type |-> "insert", anchor |-> SliceTrim(raw, 3),
                         newLines |-> newLines]>>
                      \o ParseFromStopping(lines, i + 1 + Len(newLines))
             ELSE <<>>

\* the outer while loop of parseCommands from 0-based line i on
RECURSIVE ParseFrom(_, _)
ParseFrom(lines, i) ==
    IF ~(i < Len(lines)) THEN <<>>
    ELSE LET raw == Trim(At(lines, i))
         IN  IF StartsWith(raw, PrefixD)
             THEN <<[type |-> "delete", content |-> SliceTrim(raw, 2)]>>
                  \o ParseFrom(lines, i + 1)
             ELSE IF StartsWith(raw, PrefixM)
             THEN LET newLines == Continuation(lines, i + 1, PrefixMPlus)
                  IN  <<[type |-> "replace", oldLines |-> <<SliceTrim(raw, 2)>>,
                         newLines |-> newLines]>>
                      \o ParseFrom(lines, i + 1 + Len(newLines))
             ELSE IF StartsWith(raw, PrefixAF)
             THEN LET newLines == Continuation(lines, i + 1, PrefixNAD)
                  IN  <<[type |-> "insert", anchor |-> SliceTrim(raw, 3),
                         newLines |-> newLines]>>
                      \o ParseFrom(lines, i + 1 + Len(newLines))
             ELSE ParseFrom(lines, i + 1)

parseCommands(lines) == ParseFrom(lines, 0)

\* the text an operation is matched by: content, oldLines[0] or anchor
Target(op) ==
    CASE op.type = "delete" -> op.content
      [] op.type = "replace" -> op.oldLines[1]
      [] op.type = "insert" -> op.anchor

(* --------------------------- annotated result -------------------------- *)

\* Array.prototype.splice(start, deleteCount, ...items), the array afterwards
Splice(arr, start, deleteCount, items) ==
    LET s == Min2(start, Len(arr))
        n == Min2(deleteCount, Len(arr) - s)
    IN  Slice(arr, 1, s) \o items \o Slice(arr, s + n + 1, Len(arr))

\* the search without the test of the status
findFirstFuzzyIndexAnyStatus(annotated, txt) ==
    LET normTxt == normalize(txt)
        hits == {k \in 1..Len(annotated) : normalize(annotated[k].text) = normTxt}
    IN  IF hits = {} THEN -1
        ELSE (CHOOSE k \in hits : \A h \in hits : k <= h) - 1

\* the search that takes every entry not tagged deleted, inserted ones too
findFirstFuzzyIndexNotDeleted(annotated, txt) ==
    LET normTxt == normalize(txt)
        hits == {k \in 1..Len(annotated) :
                    /\ normalize(annotated[k].text) = normTxt
                    /\ annotated[k].status # "deleted"}
    IN  IF hits = {} THEN -1
        ELSE (CHOOSE k \in hits : \A h \in hits : k <= h) - 1

\* annotated.findIndex(...): the first unchanged entry with the same normalized
\* text, -1 when there is none
findFirstFuzzyIndex(annotated, txt) ==
    LET normTxt == normalize(txt)
        hits == {k \in 1..Len(annotated) :
                    /\ normalize(annotated[k].text) = normTxt
                    /\ annotated[k].status = "unchanged"}
    IN  IF hits = {} THEN -1
        ELSE (CHOOSE k \in hits : \A h \in hits : k <= h) - 1

Inserted(newLines) == [k \in 1..Len(newLines) |-> [text |-> newLines[k], status |-> "inserted"]]

\* one round of the forEach of buildAnnotatedResult
AnnotateOp(annotated, op) ==
    LET i == findFirstFuzzyIndex(annotated, Target(op))
        marked == [annotated EXCEPT ![i + 1].status = "deleted"]
    IN  IF i = -1 THEN annotated
        ELSE CASE op.type = "delete" -> marked
               [] op.type = "replace" -> Splice(marked, i + 1, 0, Inserted(op.newLines))
               [] op.type = "insert" -> Splice(annotated, i + 1, 0, Inserted(op.newLines))

RECURSIVE AnnotateAll(_, _)
AnnotateAll(annotated, ops) ==
    IF ops = <<>> THEN annotated
    ELSE AnnotateAll(AnnotateOp(annotated, Head(ops)), Tail(ops))

buildAnnotatedResult(original, ops) ==
    LET annotated == [k \in 1..Len(original) |-> [text |-> original[k], status |-> "unchanged"]]
        Changed(a) == a.status # "unchanged"
    IN  SelectSeq(AnnotateAll(annotated, ops), Changed)

(* ------------------------ what the user can type ----------------------- *)

EmptyLine == <<>>
\* ''.split('\n')
EmptyText == <<EmptyLine>>

LineA == <<"a">>
\* normalizes to "a b": upper case, a zero-width character, a run of white space
LineAB == <<SP, "a", SP, ZW, TAB, "B">>
LineSet == {LineA, LineAB}

TargetA == <<"A">>
TargetX == <<"x">>
\* normalizes to "a bx", four characters: the threshold is 2
TargetLong == <<"a", TAB, SP, "b", "X">>

NewX == <<"x">>
\* at distance 1 from "a", 2 from "a bx"
NewAB == <<"a", "b">>

DeleteA == [type |-> "delete", content |-> TargetA]
DeleteX == [type |-> "delete", content |-> TargetX]
ReplaceA == [type |-> "replace", oldLines |-> <<LineA>>, newLines |-> <<NewAB, NewX>>]
ReplaceLong == [type |-> "replace", oldLines |-> <<TargetLong>>, newLines |-> <<>>]
InsertX == [type |-> "insert", anchor |-> LineA, newLines |-> <<NewX>>]
InsertNone == [type |-> "insert", anchor |-> TargetA, newLines |-> <<>>]
OpSet == {DeleteA, DeleteX, ReplaceA, ReplaceLong, InsertX, InsertNone}

\* the script lines that spell an operation
Directive(op) ==
    CASE op.type = "delete" -> <<PrefixD \o op.content>>
      [] op.type = "replace" ->
            <<PrefixM \o op.oldLines[1]>>
            \o [k \in 1..Len(op.newLines) |-> PrefixMPlus \o op.newLines[k]]
      [] op.type = "insert" ->
            <<PrefixAF \o op.anchor>>
            \o [k \in 1..Len(op.newLines) |-> PrefixNAD \o op.newLines[k]]

\* one more line typed under a text
AddLines(text, lines) == IF text = EmptyText THEN lines ELSE text \o lines

(* -------------------------------- state -------------------------------- *)

VARIABLES
    origText,          \* the original code, as its lines
    scriptText,        \* the legend script, as its lines
    hunks,             \* the parsed operations
    enabled,           \* enabled[i], 0-based, as a sequence
    resultText,        \* the published result, as its lines
    annotated,
    stats,
    error,
    pendingOp,         \* the operation the choice dialog is open for
    possibleChoices,
    userChoice,        \* the value of the radio group, a decimal string
    resolveChoice,     \* the stored promise resolver
    pc,                \* where the apply run stands: idle, find, await, apply
    originalLines,     \* locals of handleApply
    selectedOps,
    patched,
    opPos,             \* position of the for loop in selectedOps, from 1
    found              \* what the awaited promise resolved to: {lineIndex, skip}

\* the component of src/components/LinePatcher.jsx
VARIABLES
    numberedCode,      \* the pasted listing, as its lines
    instructionsText,  \* the instructions, as their lines
    resultCode,        \* the result, as its lines
    linePc,            \* where its handleApply stands: idle, forEach
    parsedLines,       \* locals of its handleApply
    newCodeArray,
    lineOps,           \* ops
    opIndex            \* position of ops.forEach, from 1

lineVars == <<numberedCode, instructionsText, resultCode,
              linePc, parsedLines, newCodeArray, lineOps, opIndex>>

patcherVars == <<origText, scriptText, hunks, enabled, resultText, annotated, stats, error,
                 pendingOp, possibleChoices, userChoice, resolveChoice,
                 pc, originalLines, selectedOps, patched, opPos, found>>

vars == <<patcherVars, lineVars>>

\* the locals of a handleApply of LinePatcher that is not under way
NoLineRun ==
    /\ linePc' = "idle"
    /\ parsedLines' = <<>>
    /\ newCodeArray' = <<>>
    /\ lineOps' = <<>>
    /\ opIndex' = 0

\* LinePatcher after construction: useState('') three times
LineInit ==
    /\ numberedCode = EmptyText
    /\ instructionsText = EmptyText
    /\ resultCode = EmptyText
    /\ linePc = "idle"
    /\ parsedLines = <<>>
    /\ newCodeArray = <<>>
    /\ lineOps = <<>>
    /\ opIndex = 0

inputVars == <<origText, scriptText, hunks, enabled>>
outputVars == <<resultText, annotated, stats>>
dialogVars == <<pendingOp, possibleChoices, userChoice, resolveChoice>>
runVars == <<pc, originalLines, selectedOps, patched, opPos, found>>

(* ----------------------- decimal strings of indices -------------------- *)

Digits == <<"0", "1", "2", "3", "4", "5", "6", "7", "8", "9">>

\* String(n), n >= 0
RECURSIVE StringOf(_)
StringOf(n) ==
    IF n < 10 THEN <<Digits[n + 1]>>
    ELSE StringOf(n \div 10) \o <<Digits[(n % 10) + 1]>>

DigitValue(c) == (CHOOSE d \in 1..10 : Digits[d] = c) - 1
IsDigit(c) == \E d \in 1..10 : Digits[d] = c

\* parseInt(s, 10); NULL stands for NaN, which no dialog produces
RECURSIVE ParseDigits(_, _)
ParseDigits(s, acc) ==
    IF s = <<>> \/ ~IsDigit(Head(s)) THEN acc
    ELSE ParseDigits(Tail(s), 10 * acc + DigitValue(Head(s)))

parseInt(s) == IF s = <<>> \/ ~IsDigit(Head(s)) THEN NULL ELSE Some(ParseDigits(s, 0))

(* ------------------------------- actions ------------------------------- *)

\* the locals of a run that is not under way
NoRun ==
    /\ pc' = "idle"
    /\ originalLines' = <<>>
    /\ selectedOps' = <<>>
    /\ patched' = <<>>
    /\ opPos' = 0
    /\ found' = NULL

Init ==
    /\ origText = EmptyText
    /\ scriptText = EmptyText
    /\ hunks = parseCommands(EmptyText)
    /\ enabled = <<>>
    /\ resultText = EmptyText
    /\ annotated = <<>>
    /\ stats = NULL
    /\ error = NULL
    /\ pendingOp = NULL
    /\ possibleChoices = <<>>
    /\ userChoice = <<>>
    /\ resolveChoice = NULL
    /\ pc = "idle"
    /\ originalLines = <<>>
    /\ selectedOps = <<>>
    /\ patched = <<>>
    /\ opPos = 0
    /\ found = NULL
    /\ LineInit

\* CodeMirror onChange: setOrigText(val)
SetOrigText(val) ==
    /\ pc = "idle"
    /\ origText' = val
    /\ UNCHANGED <<scriptText, hunks, enabled, outputVars, error, dialogVars, runVars, lineVars>>

\* TextField onChange: setScriptText(val), and the effect that follows it
SetScriptText(val) ==
    /\ pc = "idle"
    /\ scriptText' = val
    /\ LET ops == parseCommands(val)
       IN  /\ hunks' = ops
           /\ enabled' = [k \in 1..Len(ops) |-> TRUE]
    /\ resultText' = EmptyText
    /\ annotated' = <<>>
    /\ stats' = NULL
    /\ error' = NULL
    /\ UNCHANGED <<origText, dialogVars, runVars, lineVars>>

toggleHunk(idx) ==
    /\ pc = "idle"
    /\ enabled' = [enabled EXCEPT ![idx + 1] = ~enabled[idx + 1]]
    /\ UNCHANGED <<origText, scriptText, hunks, outputVars, error, dialogVars, runVars, lineVars>>

\* Array.prototype.join('\n') of the lines, read back as lines
JoinLines(lines) == IF lines = <<>> THEN EmptyText ELSE lines

\* hunks.filter((_, i) => enabled[i])
\* every hunk taken, checked or not
SelectedOpsAll == hunks

SelectedOps ==
    LET RECURSIVE Pick(_)
        Pick(k) == IF k > Len(hunks) THEN <<>>
                   ELSE (IF enabled[k] THEN <<hunks[k]>> ELSE <<>>) \o Pick(k + 1)
    IN  Pick(1)

\* the run that goes on from the lines of the result displayed, when there is one
handleApplyOnResult ==
    /\ pc = "idle"
    /\ error' = NULL
    /\ originalLines' = origText
    /\ selectedOps' = SelectedOps
    /\ patched' = IF stats # NULL THEN resultText ELSE origText
    /\ opPos' = 1
    /\ found' = NULL
    /\ pc' = "find"
    /\ UNCHANGED <<inputVars, outputVars, dialogVars, lineVars>>

\* handleApply up to the first await
handleApply ==
    /\ pc = "idle"
    /\ error' = NULL
    /\ originalLines' = origText
    /\ selectedOps' = SelectedOps
    /\ patched' = origText
    /\ opPos' = 1
    /\ found' = NULL
    /\ pc' = "find"
    /\ UNCHANGED <<inputVars, outputVars, dialogVars, lineVars>>

\* the dialog opened with its last choice checked
showChoiceDialogLast(op, choices) ==
    /\ pendingOp' = Some(op)
    /\ possibleChoices' = choices
    /\ userChoice' = StringOf(choices[Len(choices)].idx)
    /\ resolveChoice' = Some("resolver")

showChoiceDialog(op, choices) ==
    /\ pendingOp' = Some(op)
    /\ possibleChoices' = choices
    /\ userChoice' = StringOf(choices[1].idx)
    /\ resolveChoice' = Some("resolver")

\* the operation the for loop of handleApply stands at
CurrentOp == selectedOps[opPos]

\* the original lines handed over in place of the progressively patched buffer
LinesOfOriginal == originalLines

\* the array handleApply hands to applyDelete, applyReplace, applyInsert
Lines == patched

\* the branches with the test for one exact match left out
BranchAlwaysAsking(m) ==
    IF Len(m.exact) = 0 /\ Len(m.close) = 0 THEN "none"
    ELSE IF Len(m.exact) >= 1 THEN "many"
    ELSE "close"

\* which branch of findLineIndexWithConfirmation a match result takes
Branch(m) ==
    IF Len(m.exact) = 0 /\ Len(m.close) = 0 THEN "none"
    ELSE IF Len(m.exact) = 1 THEN "one"
    ELSE IF Len(m.exact) > 1 THEN "many"
    ELSE "close"

\* exact.map(idx => ({ idx, text: lines[idx], exact: true }))
ExactChoices(lines, exact) ==
    [k \in 1..Len(exact) |-> [idx |-> exact[k], text |-> At(lines, exact[k]), exact |-> TRUE]]

\* the close choices without their distance
CloseChoicesNoDist(close) ==
    [k \in 1..Len(close) |-> [idx |-> close[k].idx, text |-> close[k].text, exact |-> FALSE]]

\* close.map(c => ({ idx: c.idx, text: c.text, dist: c.dist, exact: false }))
CloseChoices(close) ==
    [k \in 1..Len(close) |->
        [idx |-> close[k].idx, text |-> close[k].text, dist |-> close[k].dist,
         exact |-> FALSE]]

\* the loop of handleApply not waiting for the dialog: with the dialog open it
\* goes on to the next operation
findLineIndexWithoutAwait ==
    /\ pc = "find"
    /\ opPos <= Len(selectedOps)
    /\ LET m == findLineMatches(Lines, Target(CurrentOp))
       IN  CASE Branch(m) = "none" ->
                  /\ found' = Some([lineIndex |-> NULL, skip |-> FALSE])
                  /\ pc' = "apply"
                  /\ UNCHANGED <<dialogVars, opPos>>
             [] Branch(m) = "one" ->
                  /\ found' = Some([lineIndex |-> Some(m.exact[1]), skip |-> FALSE])
                  /\ pc' = "apply"
                  /\ UNCHANGED <<dialogVars, opPos>>
             [] Branch(m) = "many" ->
                  /\ showChoiceDialog(CurrentOp, ExactChoices(Lines, m.exact))
                  /\ opPos' = opPos + 1
                  /\ UNCHANGED <<found, pc>>
             [] Branch(m) = "close" ->
                  /\ showChoiceDialog(CurrentOp, CloseChoices(m.close))
                  /\ opPos' = opPos + 1
                  /\ UNCHANGED <<found, pc>>
    /\ UNCHANGED <<inputVars, outputVars, error, originalLines, selectedOps, patched, lineVars>>

\* the call of applyDelete, applyReplace or applyInsert up to its await
findLineIndexWithConfirmation ==
    /\ pc = "find"
    /\ opPos <= Len(selectedOps)
    /\ LET m == findLineMatches(Lines, Target(CurrentOp))
       IN  CASE Branch(m) = "none" ->
                  /\ found' = Some([lineIndex |-> NULL, skip |-> FALSE])
                  /\ pc' = "apply"
                  /\ UNCHANGED dialogVars
             [] Branch(m) = "one" ->
                  /\ found' = Some([lineIndex |-> Some(m.exact[1]), skip |-> FALSE])
                  /\ pc' = "apply"
                  /\ UNCHANGED dialogVars
             [] Branch(m) = "many" ->
                  /\ showChoiceDialog(CurrentOp, ExactChoices(Lines, m.exact))
                  /\ pc' = "await"
                  /\ UNCHANGED found
             [] Branch(m) = "close" ->
                  /\ showChoiceDialog(CurrentOp, CloseChoices(m.close))
                  /\ pc' = "await"
                  /\ UNCHANGED found
    /\ UNCHANGED <<inputVars, outputVars, error, originalLines, selectedOps, patched, opPos, lineVars>>

clearChoiceDialog ==
    /\ pendingOp' = NULL
    /\ possibleChoices' = <<>>
    /\ userChoice' = <<>>
    /\ resolveChoice' = NULL

\* RadioGroup onChange
setUserChoice(val) ==
    /\ pendingOp # NULL
    /\ val # userChoice
    /\ userChoice' = val
    /\ UNCHANGED <<inputVars, outputVars, error, pendingOp, possibleChoices, resolveChoice,
                   runVars, lineVars>>

\* Confirm resolving the place of the choice in the list shown, counted from 0,
\* and not the index of its line
handleChoiceDialogConfirmByPosition ==
    /\ resolveChoice # NULL
    /\ found' = Some([lineIndex |->
                        Some((CHOOSE k \in 1..Len(possibleChoices) :
                                 StringOf(possibleChoices[k].idx) = userChoice) - 1),
                      skip |-> FALSE])
    /\ pc' = "apply"
    /\ clearChoiceDialog
    /\ UNCHANGED <<inputVars, outputVars, error, originalLines, selectedOps, patched, opPos, lineVars>>

\* the index confirmed is also written on the operation the dialog was open for
handleChoiceDialogConfirmStoring ==
    /\ resolveChoice # NULL
    /\ found' = Some([lineIndex |-> parseInt(userChoice), skip |-> FALSE])
    /\ pc' = "apply"
    /\ clearChoiceDialog
    /\ selectedOps' =
          [selectedOps EXCEPT ![opPos] =
              [f \in DOMAIN CurrentOp \cup {"lineIndex"} |->
                  IF f = "lineIndex" THEN parseInt(userChoice) ELSE CurrentOp[f]]]
    /\ UNCHANGED <<inputVars, outputVars, error, originalLines, patched, opPos, lineVars>>

handleChoiceDialogConfirm ==
    /\ resolveChoice # NULL
    /\ found' = Some([lineIndex |-> parseInt(userChoice), skip |-> FALSE])
    /\ pc' = "apply"
    /\ clearChoiceDialog
    /\ UNCHANGED <<inputVars, outputVars, error, originalLines, selectedOps, patched, opPos, lineVars>>

handleChoiceDialogSkip ==
    /\ resolveChoice # NULL
    /\ found' = Some([lineIndex |-> NULL, skip |-> TRUE])
    /\ pc' = "apply"
    /\ clearChoiceDialog
    /\ UNCHANGED <<inputVars, outputVars, error, originalLines, selectedOps, patched, opPos, lineVars>>

\* the return taken for a skip only
DeclinedOnlySkip(f) == f.skip

\* the return taken for a missing index only when the user has not skipped
DeclinedUnlessSkipped(f) == ~f.skip /\ f.lineIndex = NULL

\* if (skip || lineIndex == null) return
Declined(f) == f.skip \/ f.lineIndex = NULL

\* the number splice reads from lineIndex: null counts as 0
ToIndex(lineIndex) == IF lineIndex = NULL THEN 0 ELSE Get(lineIndex)

\* the splice one line too far down
DeleteLineBelow(lines, lineIndex) == Splice(lines, ToIndex(lineIndex) + 1, 1, <<>>)

\* lines.splice(lineIndex, 1)
DeleteLine(lines, lineIndex) == Splice(lines, ToIndex(lineIndex), 1, <<>>)

\* the splice that removes nothing
ReplaceLineKeeping(lines, lineIndex, newLines) == Splice(lines, ToIndex(lineIndex), 0, newLines)

\* a Replace without new lines leaves the array alone
ReplaceLineUnlessEmpty(lines, lineIndex, newLines) ==
    IF newLines = <<>> THEN lines ELSE Splice(lines, ToIndex(lineIndex), 1, newLines)

\* lines.splice(lineIndex, 1, ...op.newLines)
ReplaceLine(lines, lineIndex, newLines) == Splice(lines, ToIndex(lineIndex), 1, newLines)

\* the splice at lineIndex itself
InsertLinesBefore(lines, lineIndex, newLines) == Splice(lines, ToIndex(lineIndex), 0, newLines)

\* lines.splice(lineIndex + 1, 0, ...op.newLines)
InsertLines(lines, lineIndex, newLines) == Splice(lines, ToIndex(lineIndex) + 1, 0, newLines)

\* an operation that found no line or was skipped throws, and the catch of
\* handleApply ends the run with an error
ResumeAborting(type, lines) ==
    /\ pc = "apply"
    /\ CurrentOp.type = type
    /\ IF Declined(Get(found))
          THEN /\ error' = Some("Failed to apply patch")
               /\ NoRun
          ELSE /\ patched' = lines
               /\ opPos' = opPos + 1
               /\ found' = NULL
               /\ pc' = "find"
               /\ UNCHANGED <<error, originalLines, selectedOps>>
    /\ UNCHANGED <<inputVars, outputVars, dialogVars, lineVars>>

\* what follows the await in applyDelete, applyReplace, applyInsert, and the
\* step of the for loop after it
Resume(type, lines) ==
    /\ pc = "apply"
    /\ CurrentOp.type = type
    /\ patched' = IF Declined(Get(found)) THEN patched ELSE lines
    /\ opPos' = opPos + 1
    /\ found' = NULL
    /\ pc' = "find"
    /\ UNCHANGED <<inputVars, outputVars, error, dialogVars, originalLines, selectedOps, lineVars>>

applyDelete ==
    Resume("delete", DeleteLine(Lines, Get(found).lineIndex))

applyReplace ==
    Resume("replace", ReplaceLine(Lines, Get(found).lineIndex, CurrentOp.newLines))

applyInsert ==
    Resume("insert", InsertLines(Lines, Get(found).lineIndex, CurrentOp.newLines))

OfType(ops, type) == SelectSeq(ops, LAMBDA o : o.type = type)

RECURSIVE SumNewLines(_)
SumNewLines(ops) ==
    IF ops = <<>> THEN 0 ELSE Len(Head(ops).newLines) + SumNewLines(Tail(ops))

\* the annotation built over the patched array, as when patched were the
\* array originalLines itself and not a copy of it
publishOfPatched ==
    /\ pc = "find"
    /\ opPos > Len(selectedOps)
    /\ resultText' = JoinLines(patched)
    /\ annotated' = buildAnnotatedResult(patched, selectedOps)
    /\ stats' = Some([deletes |-> Len(OfType(selectedOps, "delete")),
                      replaces |-> Len(OfType(selectedOps, "replace")),
                      inserts |-> SumNewLines(OfType(selectedOps, "insert"))])
    /\ NoRun
    /\ UNCHANGED <<inputVars, error, dialogVars, lineVars>>

\* handleApply after its loop
publish ==
    /\ pc = "find"
    /\ opPos > Len(selectedOps)
    /\ resultText' = JoinLines(patched)
    /\ annotated' = buildAnnotatedResult(originalLines, selectedOps)
    /\ stats' = Some([deletes |-> Len(OfType(selectedOps, "delete")),
                      replaces |-> Len(OfType(selectedOps, "replace")),
                      inserts |-> SumNewLines(OfType(selectedOps, "insert"))])
    /\ NoRun
    /\ UNCHANGED <<inputVars, error, dialogVars, lineVars>>

\* The user types the original text line by line and the script directive by
\* directive, or clears either.  While a result is displayed the user leaves the
\* original text and the check boxes alone and does not apply again; editing the
\* script clears the result.
NoResult == stats = NULL

Next ==
    \/ \E l \in LineSet :
          /\ NoResult
          /\ Len(origText) < MaxLines \/ origText = EmptyText
          /\ SetOrigText(AddLines(origText, <<l>>))
    \/ NoResult /\ origText # EmptyText /\ SetOrigText(EmptyText)
    \/ \E op \in OpSet :
          /\ Len(hunks) < MaxOps
          /\ SetScriptText(AddLines(scriptText, Directive(op)))
    \/ scriptText # EmptyText /\ SetScriptText(EmptyText)
    \/ \E idx \in 0..(Len(hunks) - 1) : NoResult /\ toggleHunk(idx)
    \/ NoResult /\ handleApply
    \/ findLineIndexWithConfirmation
    \/ \E k \in 1..Len(possibleChoices) : setUserChoice(StringOf(possibleChoices[k].idx))
    \/ handleChoiceDialogConfirm
    \/ handleChoiceDialogSkip
    \/ applyDelete
    \/ applyReplace
    \/ applyInsert
    \/ publish

Spec == Init /\ [][Next]_vars

\* The steps of a run are promise continuations, which the event loop runs once
\* they are ready, and the user answers every choice dialog in the end.  Where
\* the for loop stands between two operations (pc = "find") either
\* findLineIndexWithConfirmation or publish is ready and each of them leaves
\* that position, so the loop does not stay there.
Fairness ==
    /\ []<>(pc # "find")
    /\ WF_vars(applyDelete \/ applyReplace \/ applyInsert)
    /\ WF_vars(handleChoiceDialogConfirm \/ handleChoiceDialogSkip)

SpecFair == Init /\ [][Next]_vars /\ Fairness

(* ------------------- the legend script typed line by line -------------- *)

MaxScript == 5

ScriptDbar == <<"D", "-", "b", "a", "r">>
ScriptMfoo == <<"M", "-", "f", "o", "o">>
ScriptMPlusNewfoo == <<"M", "+", "-", "n", "e", "w", "f", "o", "o">>
ScriptAFnewfoo == <<"A", "F", "+", "n", "e", "w", "f", "o", "o">>
ScriptNADtail == <<"N", "A", "D", "+", "t", "a", "i", "l">>
\* a directive typed with white space around it and behind the prefix
ScriptDspaced == <<SP, "D", "-", TAB, "b", SP>>
\* a line that starts with no prefix
ScriptNote == <<"#", SP, "D", "-">>
ScriptLineSet ==
    {ScriptDbar, ScriptMfoo, ScriptMPlusNewfoo, ScriptAFnewfoo, ScriptNADtail,
     ScriptDspaced, ScriptNote}

\* The user types the script line by line, or clears it; the effect on
\* scriptText parses it each time.
NextParse ==
    \/ \E l \in ScriptLineSet :
          /\ Len(scriptText) < MaxScript
          /\ SetScriptText(AddLines(scriptText, <<l>>))
    \/ scriptText # EmptyText /\ SetScriptText(EmptyText)

SpecParse == Init /\ [][NextParse]_vars

(* ------------------ lines of any characters, normalized ---------------- *)

MaxChars == 4

\* letters of both cases, white space, a zero-width character, punctuation
Alphabet == {"a", "A", SP, TAB, ZW, "-"}
Strings == UNION {[1..n -> Alphabet] : n \in 0..MaxChars}

\* the user has typed one line of original text and the script D-A
InitNormalize ==
    /\ \E s \in Strings : origText = <<s>>
    /\ scriptText = Directive(DeleteA)
    /\ hunks = parseCommands(scriptText)
    /\ enabled = [k \in 1..Len(hunks) |-> TRUE]
    /\ resultText = EmptyText
    /\ annotated = <<>>
    /\ stats = NULL
    /\ error = NULL
    /\ pendingOp = NULL
    /\ possibleChoices = <<>>
    /\ userChoice = <<>>
    /\ resolveChoice = NULL
    /\ pc = "idle"
    /\ originalLines = <<>>
    /\ selectedOps = <<>>
    /\ patched = <<>>
    /\ opPos = 0
    /\ found = NULL
    /\ LineInit

\* one run: the line is normalized and compared with the normalized target
NextNormalize ==
    \/ NoResult /\ handleApply
    \/ findLineIndexWithConfirmation
    \/ handleChoiceDialogConfirm
    \/ handleChoiceDialogSkip
    \/ applyDelete
    \/ publish

SpecNormalize == InitNormalize /\ [][NextNormalize]_vars

(* ---------------- the distance of a typed line and a target ------------ *)

MaxLev == 3

LevStrings == UNION {[1..n -> {"a", "b"}] : n \in 0..MaxLev}

\* the user has typed one line of original text and a script of one Delete
InitLev ==
    /\ \E s \in LevStrings : origText = <<s>>
    /\ \E t \in LevStrings : scriptText = Directive([type |-> "delete", content |-> t])
    /\ hunks = parseCommands(scriptText)
    /\ enabled = [k \in 1..Len(hunks) |-> TRUE]
    /\ resultText = EmptyText
    /\ annotated = <<>>
    /\ stats = NULL
    /\ error = NULL
    /\ pendingOp = NULL
    /\ possibleChoices = <<>>
    /\ userChoice = <<>>
    /\ resolveChoice = NULL
    /\ pc = "idle"
    /\ originalLines = <<>>
    /\ selectedOps = <<>>
    /\ patched = <<>>
    /\ opPos = 0
    /\ found = NULL
    /\ LineInit

\* one run: the distance of the line and the target is taken when they differ
SpecLev == InitLev /\ [][NextNormalize]_vars

(* ----------------------- Apply pressed again and again ----------------- *)

\* the script text of a sequence of operations
RECURSIVE ScriptOf(_)
ScriptOf(ops) == IF ops = <<>> THEN <<>> ELSE Directive(Head(ops)) \o ScriptOf(Tail(ops))

\* one directive of each type
RerunOpSet == {DeleteA, ReplaceA, InsertX}

\* the user has typed an original text and a script
InitRerun ==
    /\ \E n \in 1..MaxLines : origText \in [1..n -> LineSet]
    /\ \E n \in 1..MaxOps : \E ops \in [1..n -> RerunOpSet] : scriptText = ScriptOf(ops)
    /\ hunks = parseCommands(scriptText)
    /\ enabled = [k \in 1..Len(hunks) |-> TRUE]
    /\ resultText = EmptyText
    /\ annotated = <<>>
    /\ stats = NULL
    /\ error = NULL
    /\ pendingOp = NULL
    /\ possibleChoices = <<>>
    /\ userChoice = <<>>
    /\ resolveChoice = NULL
    /\ pc = "idle"
    /\ originalLines = <<>>
    /\ selectedOps = <<>>
    /\ patched = <<>>
    /\ opPos = 0
    /\ found = NULL
    /\ LineInit

\* Apply is pressed whenever no run is under way, also with a result displayed
NextRerun ==
    \/ handleApply
    \/ findLineIndexWithConfirmation
    \/ \E k \in 1..Len(possibleChoices) : setUserChoice(StringOf(possibleChoices[k].idx))
    \/ handleChoiceDialogConfirm
    \/ handleChoiceDialogSkip
    \/ applyDelete
    \/ applyReplace
    \/ applyInsert
    \/ publish

SpecRerun == InitRerun /\ [][NextRerun]_vars

(* ------------- the matcher on one directive over typed lines ----------- *)

\* normalizes to "a": zero-width character, surrounding white space, upper case
LineA2 == <<ZW, SP, "A", TAB>>
LineABB == <<"a", "b", "b">>
MatchLineSet == {EmptyLine, LineA, LineA2, NewAB, LineAB, LineABB}

\* normalizes to "abba", four characters
TargetABBA == <<"a", "b", ZW, "B", "a">>
\* the content of the directive D- with nothing behind it
TargetNone == <<>>
MatchTargetSet == {TargetNone, TargetA, TargetX, NewAB, TargetLong, TargetABBA}

\* the user has typed an original text and a script of one Delete directive
InitMatch ==
    /\ \E n \in 1..MaxLines : origText \in [1..n -> MatchLineSet]
    /\ \E t \in MatchTargetSet : scriptText = Directive([type |-> "delete", content |-> t])
    /\ hunks = parseCommands(scriptText)
    /\ enabled = [k \in 1..Len(hunks) |-> TRUE]
    /\ resultText = EmptyText
    /\ annotated = <<>>
    /\ stats = NULL
    /\ error = NULL
    /\ pendingOp = NULL
    /\ possibleChoices = <<>>
    /\ userChoice = <<>>
    /\ resolveChoice = NULL
    /\ pc = "idle"
    /\ originalLines = <<>>
    /\ selectedOps = <<>>
    /\ patched = <<>>
    /\ opPos = 0
    /\ found = NULL
    /\ LineInit

NextMatch ==
    \/ NoResult /\ handleApply
    \/ findLineIndexWithConfirmation
    \/ \E k \in 1..Len(possibleChoices) : setUserChoice(StringOf(possibleChoices[k].idx))
    \/ handleChoiceDialogConfirm
    \/ handleChoiceDialogSkip
    \/ applyDelete
    \/ publish

SpecMatch == InitMatch /\ [][NextMatch]_vars

(* ------------------------------ LinePatcher ---------------------------- *)

\* longest listing the user pastes, in lines
MaxListing == 2
\* longest instructions text the user types, in lines
MaxInstr == 2

Lower == <<"a", "b", "c", "d", "e", "f", "g", "h", "i", "j", "k", "l", "m",
           "n", "o", "p", "q", "r", "s", "t", "u", "v", "w", "x", "y", "z">>
Upper == <<"A", "B", "C", "D", "E", "F", "G", "H", "I", "J", "K", "L", "M",
           "N", "O", "P", "Q", "R", "S", "T", "U", "V", "W", "X", "Y", "Z">>

\* the flag i of a regular expression: letters compare by their lower case
FoldCase(c) == IF \E k \in 1..26 : Upper[k] = c
               THEN Lower[CHOOSE k \in 1..26 : Upper[k] = c] ELSE c
FoldAll(s) == [k \in 1..Len(s) |-> FoldCase(s[k])]

\* what is left of s behind its leading digits: (\d+) is greedy
RECURSIVE AfterDigits(_)
AfterDigits(s) == IF s # <<>> /\ IsDigit(Head(s)) THEN AfterDigits(Tail(s)) ELSE s

\* raw.match(/^(\d+)(.*)$/): { num: parseInt(match[1], 10), text: match[2].trim() },
\* and { num: null, text: raw.trim() } without a match
ParseNumberedLine(raw) ==
    IF raw # <<>> /\ IsDigit(Head(raw))
    THEN [num |-> Some(ParseDigits(raw, 0)), text |-> Trim(AfterDigits(raw))]
    ELSE [num |-> NULL, text |-> Trim(raw)]

\* numberedCode.split('\n').map(...)
parseNumberedCode(code) == [k \in 1..Len(code) |-> ParseNumberedLine(code[k])]

KwRemove ==
    <<"r", "e", "m", "o", "v", "e", SP, "l", "i", "n", "e">>
KwReplace ==
    <<"r", "e", "p", "l", "a", "c", "e", SP, "l", "i", "n", "e">>
KwAdd ==
    <<"a", "d", "d", SP, "a", "f", "t", "e", "r", SP, "l", "i", "n", "e">>
KwWith ==
    <<"w", "i", "t", "h", ":">>

\* /^remove line/i.test(s) and its like
HasKeyword(s, kw) == StartsWith(FoldAll(s), kw)

\* s without the keyword it starts with
AfterKeyword(s, kw) == Slice(s, Len(kw) + 1, Len(s))

\* \s+(\d+) matches at the start of s
SpacedNumber(s) ==
    /\ s # <<>> /\ IsSpace(Head(s))
    /\ TrimStart(s) # <<>> /\ IsDigit(Head(TrimStart(s)))

\* parseInt(match[1], 10) of the number \s+(\d+) matches at the start of s
NumberOf(s) == ParseDigits(TrimStart(s), 0)

\* what follows the number \s+(\d+) matches at the start of s
AfterNumber(s) == AfterDigits(TrimStart(s))

\* raw.match(/^remove line\s+(\d+)/i)
MatchRemove(raw) ==
    HasKeyword(raw, KwRemove) /\ SpacedNumber(AfterKeyword(raw, KwRemove))

\* raw.match(/^replace line\s+(\d+)\s+with:\s*(.*)/i)
MatchReplace(raw) ==
    /\ HasKeyword(raw, KwReplace)
    /\ SpacedNumber(AfterKeyword(raw, KwReplace))
    /\ LET d == AfterNumber(AfterKeyword(raw, KwReplace))
       IN  /\ d # <<>> /\ IsSpace(Head(d))
           /\ HasKeyword(TrimStart(d), KwWith)

\* match[2] || '' of the replace pattern
ReplaceText(raw) ==
    TrimStart(AfterKeyword(TrimStart(AfterNumber(AfterKeyword(raw, KwReplace))), KwWith))

\* raw.match(/^add after line\s+(\d+):\s*(.*)/i)
MatchAdd(raw) ==
    /\ HasKeyword(raw, KwAdd)
    /\ SpacedNumber(AfterKeyword(raw, KwAdd))
    /\ LET d == AfterNumber(AfterKeyword(raw, KwAdd))
       IN  d # <<>> /\ Head(d) = ":"

\* match[2] || '' of the add pattern
AddFirstLine(raw) == TrimStart(Tail(AfterNumber(AfterKeyword(raw, KwAdd))))

\* the inner while of parseInstructions: the lines from index i up to a blank
\* line or a line that starts like an instruction, as they are
RECURSIVE AddBlock(_, _)
AddBlock(lines, i) ==
    IF i >= Len(lines) THEN <<>>
    ELSE LET testLine == At(lines, i)
         IN  IF \/ Trim(testLine) = <<>>
                \/ HasKeyword(testLine, KwRemove)
                \/ HasKeyword(testLine, KwReplace)
                \/ HasKeyword(testLine, KwAdd)
             THEN <<>>
             ELSE <<testLine>> \o AddBlock(lines, i + 1)

\* the outer while of parseInstructions from index i
RECURSIVE InstructionsFrom(_, _)
InstructionsFrom(lines, i) ==
    IF i >= Len(lines) THEN <<>>
    ELSE LET raw == Trim(At(lines, i))
         IN  IF raw = <<>> THEN InstructionsFrom(lines, i + 1)
             ELSE IF MatchRemove(raw)
             THEN <<[type |-> "remove",
                     lineNum |-> NumberOf(AfterKeyword(raw, KwRemove))]>>
                  \o InstructionsFrom(lines, i + 1)
             ELSE IF MatchReplace(raw)
             THEN <<[type |-> "replace",
                     lineNum |-> NumberOf(AfterKeyword(raw, KwReplace)),
                     newLines |-> <<ReplaceText(raw)>>]>>
                  \o InstructionsFrom(lines, i + 1)
             ELSE IF MatchAdd(raw)
             THEN LET more == AddBlock(lines, i + 1)
                  IN  <<[type |-> "insert",
                         lineNum |-> NumberOf(AfterKeyword(raw, KwAdd)),
                         newLines |-> <<AddFirstLine(raw)>> \o more]>>
                      \o InstructionsFrom(lines, i + 1 + Len(more))
             ELSE InstructionsFrom(lines, i + 1)

parseInstructions(text) == InstructionsFrom(text, 0)

\* line X taken as the X-th line of the code as it stands
findIndexByPosition(table, lineNum) ==
    IF lineNum \in 1..Len(table) THEN lineNum - 1 ELSE -1

\* parsedLines.findIndex(item => item.num === op.lineNum)
findIndex(table, lineNum) ==
    LET hits == {k \in 1..Len(table) : table[k].num = Some(lineNum)}
    IN  IF hits = {} THEN -1
        ELSE (CHOOSE k \in hits : \A h \in hits : k <= h) - 1

\* op.newLines.map((txt, idx) => idx === 0 ? { num: op.lineNum, text: txt }
\*                                          : { num: null, text: txt })
ReplacedEntries(op) ==
    [k \in 1..Len(op.newLines) |->
        [num |-> IF k = 1 THEN Some(op.lineNum) ELSE NULL, text |-> op.newLines[k]]]

\* the inserted lines parsed as the pasted ones are: a line that starts with
\* digits carries them as its number
NewParsedNumbered(newLines) ==
    [k \in 1..Len(newLines) |->
        [num |-> ParseNumberedLine(newLines[k]).num, text |-> newLines[k]]]

\* op.newLines.map(txt => ({ num: null, text: txt }))
NewParsed(newLines) == [k \in 1..Len(newLines) |-> [num |-> NULL, text |-> newLines[k]]]

\* CodeMirror onChange: setNumberedCode(val)
setNumberedCode(val) ==
    /\ linePc = "idle"
    /\ numberedCode' = val
    /\ UNCHANGED <<instructionsText, resultCode, linePc, parsedLines, newCodeArray,
                   lineOps, opIndex, patcherVars>>

\* TextField onChange: setInstructionsText(val)
setInstructionsText(val) ==
    /\ linePc = "idle"
    /\ instructionsText' = val
    /\ UNCHANGED <<numberedCode, resultCode, linePc, parsedLines, newCodeArray,
                   lineOps, opIndex, patcherVars>>

\* handleApply of LinePatcher up to ops.forEach
LinePatcherHandleApply ==
    /\ linePc = "idle"
    /\ LET parsed == parseNumberedCode(numberedCode)
       IN  IF Len(parsed) = 0
           THEN /\ resultCode' = EmptyText
                /\ NoLineRun
           ELSE /\ parsedLines' = parsed
                /\ lineOps' = parseInstructions(instructionsText)
                /\ newCodeArray' = [k \in 1..Len(parsed) |-> parsed[k].text]
                /\ opIndex' = 1
                /\ linePc' = "forEach"
                /\ UNCHANGED resultCode
    /\ UNCHANGED <<numberedCode, instructionsText, patcherVars>>

\* one call of the callback of ops.forEach
forEachOp ==
    /\ linePc = "forEach"
    /\ opIndex <= Len(lineOps)
    /\ LET op == lineOps[opIndex]
           lineIndex == findIndex(parsedLines, op.lineNum)
       IN  IF lineIndex < 0
           THEN UNCHANGED <<newCodeArray, parsedLines>>
           ELSE CASE op.type = "remove" ->
                       /\ newCodeArray' = Splice(newCodeArray, lineIndex, 1, <<>>)
                       /\ parsedLines' = Splice(parsedLines, lineIndex, 1, <<>>)
                  [] op.type = "replace" ->
                       /\ newCodeArray' = Splice(newCodeArray, lineIndex, 1, op.newLines)
                       /\ parsedLines' = Splice(parsedLines, lineIndex, 1, ReplacedEntries(op))
                  [] op.type = "insert" ->
                       /\ newCodeArray' = Splice(newCodeArray, lineIndex + 1, 0, op.newLines)
                       /\ parsedLines' =
                             Splice(parsedLines, lineIndex + 1, 0, NewParsed(op.newLines))
    /\ opIndex' = opIndex + 1
    /\ UNCHANGED <<numberedCode, instructionsText, resultCode, linePc, lineOps, patcherVars>>

\* setResultCode(newCodeArray.join('\n')), after the forEach
setResultCode ==
    /\ linePc = "forEach"
    /\ opIndex > Len(lineOps)
    /\ resultCode' = JoinLines(newCodeArray)
    /\ NoLineRun
    /\ UNCHANGED <<numberedCode, instructionsText, patcherVars>>

\* "1a"
ListingOneA ==
    <<"1", "a">>
\* "2 b\t"
ListingTwoB ==
    <<"2", SP, "b", TAB>>
\* "9"
ListingNine ==
    <<"9">>
\* " c"
ListingPlain ==
    <<SP, "c">>
ListingSet == {ListingOneA, ListingTwoB, ListingNine, ListingPlain}

\* "Remove line 1"
InstrRemoveOne ==
    <<"R", "e", "m", "o", "v", "e", SP, "l", "i", "n", "e", SP, "1">>
\* " replace LINE  2 with: 1z"
InstrReplaceTwo ==
    <<SP, "r", "e", "p", "l", "a", "c", "e", SP, "L", "I", "N", "E", SP, SP, "2", SP,
      "w", "i", "t", "h", ":", SP, "1", "z">>
\* "Add after line 1:"
InstrAddOne ==
    <<"A", "d", "d", SP, "a", "f", "t", "e", "r", SP, "l", "i", "n", "e", SP, "1", ":">>
\* "add after line 02:1w"
InstrAddTwoW ==
    <<"a", "d", "d", SP, "a", "f", "t", "e", "r", SP, "l", "i", "n", "e", SP, "0", "2",
      ":", "1", "w">>
\* "7y "
InstrText ==
    <<"7", "y", SP>>
\* "remove line 7 now"
InstrRemoveSeven ==
    <<"r", "e", "m", "o", "v", "e", SP, "l", "i", "n", "e", SP, "7", SP, "n", "o", "w">>
InstrSet == {InstrRemoveOne, InstrReplaceTwo, InstrAddOne, InstrAddTwoW, InstrText, InstrRemoveSeven}

\* The user pastes the listing line by line and types the instructions line by
\* line, both before the first result, and presses Apply; the run goes through
\* its instructions and sets the result.
NextLine ==
    \/ \E l \in ListingSet :
          /\ resultCode = EmptyText
          /\ Len(numberedCode) < MaxListing \/ numberedCode = EmptyText
          /\ setNumberedCode(AddLines(numberedCode, <<l>>))
    \/ \E l \in InstrSet :
          /\ resultCode = EmptyText
          /\ Len(instructionsText) < MaxInstr \/ instructionsText = EmptyText
          /\ setInstructionsText(AddLines(instructionsText, <<l>>))
    \/ LinePatcherHandleApply
    \/ forEachOp
    \/ setResultCode

SpecLine == Init /\ [][NextLine]_vars

(* ------------------------------- claims -------------------------------- *)

\* line i (0-based) of buf has the normalized text of target
ExactAt(buf, i, target) == normalize(At(buf, i)) = normalize(target)

\* the edit distance the matcher measures between line i of buf and target
DistAt(buf, i, target) == levenshtein(normalize(At(buf, i)), normalize(target))

\* max(1, floor(length(normalize(target)) / 2))
MaxDist(target) ==
    LET h == Len(normalize(target)) \div 2 IN IF h >= 1 THEN h ELSE 1

InRun == pc # "idle"

\* the index a run is about to apply the current operation at
Resolved == pc = "apply" /\ ~Get(found).skip /\ Get(found).lineIndex # NULL
ResolvedIndex == Get(Get(found).lineIndex)

\* C1, state part: the index resolved for the current operation is a match of its
\* target in the buffer as the earlier operations left it (an exact match whenever
\* that buffer holds one); and [Insert after "a" -> ["x"], Delete "x"] on ["a"]
\* gives ["a", "x"] after the first operation and ["a"] after the second.
C1_OnCurrentBuffer ==
    /\ Resolved =>
          /\ ResolvedIndex \in 0..(Len(patched) - 1)
          /\ IF \E j \in 0..(Len(patched) - 1) : ExactAt(patched, j, Target(CurrentOp))
             THEN ExactAt(patched, ResolvedIndex, Target(CurrentOp))
             ELSE DistAt(patched, ResolvedIndex, Target(CurrentOp)) <= MaxDist(Target(CurrentOp))
    /\ (InRun /\ originalLines = <<LineA>> /\ selectedOps = <<InsertX, DeleteX>>) =>
          /\ pc = "find" /\ opPos = 2 => patched = <<LineA, NewX>>
          /\ opPos = 2 => pc # "await"
          /\ Resolved /\ opPos = 2 => ResolvedIndex = 1
          /\ opPos = 3 => patched = <<LineA>>

\* C1, step part: a run takes the selected operations one by one in script order,
\* and the buffer changes only when the current operation is applied.
C1_InScriptOrder ==
    /\ (~InRun /\ InRun') =>
          /\ opPos' = 1
          /\ patched' = origText
          /\ \E pick \in [1..Len(selectedOps') -> 1..Len(hunks)] :
                /\ \A k \in 1..Len(selectedOps') :
                      /\ selectedOps'[k] = hunks[pick[k]]
                      /\ enabled[pick[k]]
                      /\ k > 1 => pick[k - 1] < pick[k]
                /\ \A h \in 1..Len(hunks) :
                      enabled[h] => \E k \in 1..Len(selectedOps') : pick[k] = h
    /\ (InRun /\ InRun') =>
          /\ selectedOps' = selectedOps
          /\ opPos' \in {opPos, opPos + 1}
          /\ opPos' = opPos + 1 => pc = "apply"
          /\ patched' # patched => pc = "apply"
    /\ (InRun /\ ~InRun') => opPos = Len(selectedOps) + 1

\* C1: handleApply applies the selected operations strictly in script order to one
\* progressively mutated buffer: the match for operation k is computed on the
\* buffer as left by operations 1..k-1.
C1_SequentialApplication == []C1_OnCurrentBuffer /\ [][C1_InScriptOrder]_vars

C1_Witness ==
    /\ pc = "find" /\ opPos = 3
    /\ originalLines = <<LineA>> /\ selectedOps = <<InsertX, DeleteX>>
    /\ patched = <<LineA>>

\* the run is about to apply an operation of this type at a resolved index
Applying(type) == Resolved /\ CurrentOp.type = type

\* after is before with the one line at 0-based i replaced by the lines new
ReplacedAt(before, after, i, new) ==
    /\ Len(after) = Len(before) - 1 + Len(new)
    /\ \A k \in 0..(i - 1) : At(after, k) = At(before, k)
    /\ \A j \in 0..(Len(new) - 1) : At(after, i + j) = At(new, j)
    /\ \A k \in (i + 1)..(Len(before) - 1) : At(after, k + Len(new) - 1) = At(before, k)

\* after is before with the lines new put in behind the line at 0-based i
InsertedAfter(before, after, i, new) ==
    /\ Len(after) = Len(before) + Len(new)
    /\ \A k \in 0..i : At(after, k) = At(before, k)
    /\ \A j \in 0..(Len(new) - 1) : At(after, i + 1 + j) = At(new, j)
    /\ \A k \in (i + 1)..(Len(before) - 1) : At(after, k + Len(new)) = At(before, k)

C2_Step == Applying("delete") => ReplacedAt(patched, patched', ResolvedIndex, <<>>)

C2_Example ==
    (InRun /\ originalLines = <<LineA, LineAB>> /\ selectedOps = <<DeleteA>> /\ opPos = 2)
        => patched = <<LineAB>>

\* C2: a Delete whose target resolves to index i leaves the buffer with exactly
\* line i removed and every other line in its previous relative order; Delete "a"
\* on ["a", " a  B"] gives [" a  B"].
C2_DeleteRemovesLine == [][C2_Step]_vars /\ []C2_Example

C2_Witness ==
    /\ pc = "find" /\ opPos = 2
    /\ originalLines = <<LineA, LineAB>> /\ selectedOps = <<DeleteA>>
    /\ patched = <<LineAB>>

C3_Step ==
    Applying("replace") => ReplacedAt(patched, patched', ResolvedIndex, CurrentOp.newLines)

C3_Example ==
    (InRun /\ originalLines = <<LineA, LineAB>> /\ selectedOps = <<ReplaceA>> /\ opPos = 2)
        => patched = <<NewAB, NewX, LineAB>>

\* C3: a Replace whose target resolves to index i leaves the lines before i, then
\* newLines in script order, then the lines after i; Replace "a" by ["ab", "x"] on
\* ["a", " a  B"] gives ["ab", "x", " a  B"].
C3_ReplaceSwapsLine == [][C3_Step]_vars /\ []C3_Example

C3_Witness ==
    /\ pc = "find" /\ opPos = 2
    /\ originalLines = <<LineA, LineAB>> /\ selectedOps = <<ReplaceA>>
    /\ patched = <<NewAB, NewX, LineAB>>

C4_Step ==
    Applying("insert") => InsertedAfter(patched, patched', ResolvedIndex, CurrentOp.newLines)

C4_Example ==
    (InRun /\ originalLines = <<LineA, LineAB>> /\ selectedOps = <<InsertX>> /\ opPos = 2)
        => patched = <<LineA, NewX, LineAB>>

\* C4: an Insert whose anchor resolves to index i leaves the lines up to and
\* including i, then newLines in script order, then the lines after i; Insert ["x"]
\* after "a" on ["a", " a  B"] gives ["a", "x", " a  B"].
C4_InsertAfterAnchor == [][C4_Step]_vars /\ []C4_Example

C4_Witness ==
    /\ pc = "find" /\ opPos = 2
    /\ originalLines = <<LineA, LineAB>> /\ selectedOps = <<InsertX>>
    /\ patched = <<LineA, NewX, LineAB>>

\* the run stands at an operation: about to match it, asking about it, or about
\* to apply it; the buffer is the one the match was or will be taken on
AtOp == pc \in {"await", "apply"} \/ (pc = "find" /\ opPos <= Len(selectedOps))

\* the 0-based indices of the lines of buf with the normalized text of target
ExactSet(buf, target) == {j \in 0..(Len(buf) - 1) : ExactAt(buf, j, target)}

\* the 0-based indices of the lines of buf within the distance bound of target
CloseSet(buf, target) ==
    {j \in 0..(Len(buf) - 1) : DistAt(buf, j, target) <= MaxDist(target)}

C5_State ==
    \A j \in 0..(Len(patched) - 1) :
        (AtOp /\ ExactSet(patched, Target(CurrentOp)) = {j}) =>
            /\ findLineMatches(patched, Target(CurrentOp)) = [exact |-> <<j>>, close |-> <<>>]
            /\ pc # "await"
            /\ pendingOp = NULL /\ possibleChoices = <<>> /\ resolveChoice = NULL
            /\ pc = "apply" => found = Some([lineIndex |-> Some(j), skip |-> FALSE])

C5_Step ==
    \A j \in 0..(Len(patched) - 1) :
        (AtOp /\ ExactSet(patched, Target(CurrentOp)) = {j}) =>
            /\ pc = "find" => pc' = "apply"
            /\ pc = "apply" =>
                  CASE CurrentOp.type = "delete" -> ReplacedAt(patched, patched', j, <<>>)
                    [] CurrentOp.type = "replace" ->
                          ReplacedAt(patched, patched', j, CurrentOp.newLines)
                    [] CurrentOp.type = "insert" ->
                          InsertedAfter(patched, patched', j, CurrentOp.newLines)

\* C5: when the normalized target of an operation equals the normalized text of
\* exactly one line of the current buffer, findLineMatches returns exactly that
\* index in exact with close empty, the operation is applied at that index and no
\* choice dialog is raised for it.
C5_UniqueExactNoDialog == []C5_State /\ [][C5_Step]_vars

\* the target "A" matches only the second line, "a", and the Delete resolves to it
C5_Witness ==
    /\ pc = "apply" /\ CurrentOp = DeleteA
    /\ patched = <<LineAB, LineA>>
    /\ found = Some([lineIndex |-> Some(1), skip |-> FALSE])
    /\ pendingOp = NULL

\* the matcher's answer calls for a resolution request
Ambiguous(m) == Len(m.exact) > 1 \/ (Len(m.exact) = 0 /\ Len(m.close) >= 1)

C6_Raise ==
    (pc = "find" /\ opPos <= Len(selectedOps)) =>
        LET m == findLineMatches(patched, Target(CurrentOp))
        IN  /\ Ambiguous(m) <=> (pc' = "await" /\ pendingOp' # NULL /\ resolveChoice' # NULL)
            /\ ~Ambiguous(m) => (pc' = "apply" /\ pendingOp' = NULL /\ resolveChoice' = NULL)

C6_Candidates ==
    /\ pc = "await" <=> pendingOp # NULL
    /\ pc = "await" =>
          LET t == Target(CurrentOp)
              m == findLineMatches(patched, t)
              c == possibleChoices
          IN  /\ pendingOp = Some(CurrentOp)
              /\ Ambiguous(m)
              /\ \A k \in 1..Len(c) : c[k].text = At(patched, c[k].idx)
              /\ IF ExactSet(patched, t) # {}
                 THEN /\ Len(c) = Len(m.exact) /\ Len(c) = Cardinality(ExactSet(patched, t))
                      /\ \A k \in 1..Len(c) :
                            /\ c[k].idx = m.exact[k]
                            /\ c[k].idx \in ExactSet(patched, t)
                            /\ c[k].exact
                            /\ DOMAIN c[k] = {"idx", "text", "exact"}
                            /\ k > 1 => c[k - 1].idx < c[k].idx
                 ELSE /\ Len(c) = Len(m.close) /\ Len(c) = Cardinality(CloseSet(patched, t))
                      /\ \A k \in 1..Len(c) :
                            /\ c[k].idx = m.close[k].idx
                            /\ c[k].idx \in CloseSet(patched, t)
                            /\ ~c[k].exact
                            /\ DOMAIN c[k] = {"idx", "text", "exact", "dist"}
                            /\ c[k].dist = DistAt(patched, c[k].idx, t)
                            /\ k > 1 => c[k - 1].dist <= c[k].dist
                            /\ \A h \in 1..(k - 1) : c[h].idx # c[k].idx

\* C6: a resolution request is raised for an operation if and only if the matcher
\* returns more than one exact match, or no exact match and at least one close
\* match; the candidates are then the exact matches in ascending buffer index,
\* flagged exact and without distance, or the close matches in ascending distance,
\* flagged not exact and with their distance.
C6_RequestAndCandidates == [][C6_Raise]_vars /\ []C6_Candidates

\* a dialog on close matches whose order by distance is not the buffer order
C6_Witness ==
    /\ pc = "await" /\ Len(possibleChoices) = 2
    /\ ~possibleChoices[1].exact
    /\ possibleChoices[1].dist < possibleChoices[2].dist
    /\ possibleChoices[1].idx > possibleChoices[2].idx

\* a dialog on several exact matches
C6_WitnessExact ==
    /\ pc = "await" /\ Len(possibleChoices) = 2
    /\ possibleChoices[1].exact /\ possibleChoices[2].exact

\* C7: findLineMatches returns in exact precisely the indices of the buffer lines
\* whose normalized text equals the normalized target, in ascending index order,
\* and whenever exact is not empty close is empty.
C7_ExactMatches ==
    AtOp =>
        LET t == Target(CurrentOp)
            m == findLineMatches(patched, t)
        IN  /\ Len(m.exact) = Cardinality(ExactSet(patched, t))
            /\ \A k \in 1..Len(m.exact) :
                  /\ m.exact[k] \in ExactSet(patched, t)
                  /\ k > 1 => m.exact[k - 1] < m.exact[k]
            /\ m.exact # <<>> => m.close = <<>>

\* two lines that differ as typed and have the normalized text of the target "A"
C7_Witness ==
    /\ pc = "await"
    /\ patched = <<LineA2, LineA>>
    /\ findLineMatches(patched, Target(CurrentOp)) = [exact |-> <<0, 1>>, close |-> <<>>]

\* C8: when no buffer line matches the target exactly, close holds exactly the
\* lines whose edit distance between normalized line and normalized target is at
\* most max(1, floor(length(normalize(target)) / 2)), sorted by ascending distance,
\* lines of equal distance in buffer order.
C8_CloseMatches ==
    (AtOp /\ ExactSet(patched, Target(CurrentOp)) = {}) =>
        LET t == Target(CurrentOp)
            m == findLineMatches(patched, t)
            c == m.close
        IN  /\ m.exact = <<>>
            /\ Len(c) = Cardinality(CloseSet(patched, t))
            /\ \A k \in 1..Len(c) :
                  /\ c[k].idx \in CloseSet(patched, t)
                  /\ c[k].dist = DistAt(patched, c[k].idx, t)
                  /\ c[k].text = At(patched, c[k].idx)
                  /\ k > 1 =>
                        \/ c[k - 1].dist < c[k].dist
                        \/ c[k - 1].dist = c[k].dist /\ c[k - 1].idx < c[k].idx

\* close lines offered by distance, against the buffer order
C8_Witness ==
    /\ pc = "await" /\ Target(CurrentOp) = TargetABBA
    /\ patched = <<NewAB, LineABB>>
    /\ LET c == findLineMatches(patched, Target(CurrentOp)).close
       IN  /\ Len(c) = 2
           /\ c[1].idx = 1 /\ c[1].dist = 1
           /\ c[2].idx = 0 /\ c[2].dist = 2

\* two close lines of equal distance, offered in buffer order
C8_WitnessTie ==
    /\ pc = "await" /\ Target(CurrentOp) = TargetABBA
    /\ patched = <<LineAB, NewAB>>
    /\ LET c == findLineMatches(patched, Target(CurrentOp)).close
       IN  Len(c) = 2 /\ c[1].idx = 0 /\ c[2].idx = 1 /\ c[1].dist = c[2].dist

NoCandidate ==
    /\ ExactSet(patched, Target(CurrentOp)) = {}
    /\ CloseSet(patched, Target(CurrentOp)) = {}

DialogClear ==
    /\ pendingOp = NULL
    /\ possibleChoices = <<>>
    /\ userChoice = <<>>
    /\ resolveChoice = NULL

C9_Step ==
    (pc \in {"find", "apply"} /\ AtOp /\ NoCandidate) =>
        /\ patched' = patched
        /\ selectedOps' = selectedOps
        /\ DialogClear /\ DialogClear'
        /\ error = NULL /\ error' = NULL
        /\ pc = "find" => (pc' = "apply" /\ opPos' = opPos)
        /\ pc = "apply" => (pc' = "find" /\ opPos' = opPos + 1)

\* C9: an operation whose target has neither an exact nor a close candidate in
\* the current buffer leaves the buffer unchanged, opens no choice dialog and
\* sets no error, and the run moves on to the operation after it.
C9_NoCandidateNoOp == [][C9_Step]_vars

\* "a bx" found nowhere in [a], the buffer kept, and the Delete after it applied
C9_Witness ==
    /\ pc = "find" /\ opPos = 3
    /\ selectedOps = <<ReplaceLong, DeleteA>>
    /\ originalLines = <<LineA>>
    /\ patched = <<>>

C10_Step ==
    /\ (pc = "find" /\ pc' = "await") => patched' = patched
    /\ (pc = "await" /\ pc' = "apply" /\ Get(found').skip) =>
          /\ patched' = patched
          /\ selectedOps' = selectedOps
          /\ opPos' = opPos
          /\ DialogClear'
    /\ (pc = "apply" /\ Get(found).skip) =>
          /\ patched' = patched
          /\ selectedOps' = selectedOps
          /\ DialogClear /\ DialogClear'
          /\ pc' = "find" /\ opPos' = opPos + 1

\* C10: when the user answers Skip in the choice dialog the operation changes
\* nothing: the buffer stays as the earlier operations left it, the pending
\* operation, the choices, the selection and the resolver are cleared, and the
\* run moves on to the next operation.
C10_SkipIsNoOp == [][C10_Step]_vars

\* Replace a -> [ab, x] applied, then the Delete of "A" skipped in its dialog:
\* the buffer is still [ab, x] and the run is past both operations
C10_Witness ==
    /\ pc = "find" /\ opPos = 3
    /\ selectedOps = <<ReplaceA, DeleteA>>
    /\ originalLines = <<LineA>>
    /\ patched = <<NewAB, NewX>>
    /\ DialogClear

Published == pc = "idle" /\ stats # NULL

C11_Attempt ==
    /\ (pc = "idle" /\ pc' # "idle") => (pc' = "find" /\ opPos' = 1)
    /\ (pc = "find" /\ AtOp) =>
          (pc' \in {"apply", "await"} /\ opPos' = opPos /\ selectedOps' = selectedOps)
    /\ pc = "await" => (pc' \in {"apply", "await"} /\ opPos' = opPos /\ selectedOps' = selectedOps)
    /\ pc = "apply" => (pc' = "find" /\ opPos' = opPos + 1 /\ selectedOps' = selectedOps)
    /\ (pc # "idle" /\ pc' = "idle") =>
          /\ opPos = Len(selectedOps) + 1
          /\ stats' # NULL
          /\ resultText' = JoinLines(patched)
          /\ Len(annotated') >= 0

\* C11: an apply run is never aborted by an operation that found no line or was
\* skipped: no error is set, the operations are attempted one after the other,
\* each once, in script order, and, the dialogs being answered, every run that
\* has started ends with the result text, the annotated list and the stats set.
C11_RunFinishes ==
    /\ [](error = NULL)
    /\ [][C11_Attempt]_vars
    /\ (pc # "idle") ~> Published

\* the result of a run over [a] whose Replace of "a bx" found no line and whose
\* Delete of "A" then removed the only line
C11_Witness ==
    /\ Published
    /\ origText = <<LineA>>
    /\ hunks = <<ReplaceLong, DeleteA>>
    /\ enabled = <<TRUE, TRUE>>
    /\ resultText = EmptyText

\* the step that ends a run and sets resultText, annotated and stats
Publishing == pc = "find" /\ pc' = "idle"

OnlyDeletes == \A k \in 1..Len(selectedOps) : selectedOps[k].type = "delete"

\* an applied Delete removes exactly one line of the buffer and a skipped one
\* none, so over a run of Deletes the applied ones are the lines that went
C12_Step ==
    (Publishing /\ OnlyDeletes) =>
        LET applied == Len(originalLines) - Len(patched)
        IN  /\ Get(stats').deletes = applied
            /\ Get(stats').replaces = 0
            /\ Get(stats').inserts = 0
            /\ applied < Len(selectedOps) => Get(stats').deletes < Len(selectedOps)

\* C12: the stats published after a run count the operations actually applied,
\* so that a count is lower than the count over the selected operations when an
\* operation was skipped; here for the runs whose selected operations are all
\* Deletes, where the Deletes applied are the lines removed from the buffer.
C12_StatsCountApplied == [][C12_Step]_vars

\* a Replace or an Insert that was parsed without continuation lines is applied
ApplyingEmpty(type) == Applying(type) /\ CurrentOp.newLines = <<>>

C13_OriginalStep ==
    (ApplyingEmpty("replace") \/ ApplyingEmpty("insert")) => patched' = patched

\* C13 as stated: a Replace or an Insert whose newLines is empty leaves the
\* buffer as it was, whatever line its target resolves to.
C13_EmptyNewLinesNoOp == [][C13_OriginalStep]_vars

C13_Step ==
    /\ ApplyingEmpty("insert") => patched' = patched
    /\ ApplyingEmpty("replace") =>
          /\ Len(patched') = Len(patched) - 1
          /\ \A k \in 1..Len(patched') :
                patched'[k] = IF k <= ResolvedIndex THEN patched[k] ELSE patched[k + 1]

\* C13 amended: an Insert whose newLines is empty leaves the buffer as it was;
\* a Replace whose newLines is empty removes the line its target resolves to
\* and keeps every other line, in order.
C13_EmptyInsertNoOpEmptyReplaceDeletes == [][C13_Step]_vars

\* over [" a  B", "a"]: the empty Insert after "A" applied at index 1, then the
\* empty Replace of "a bX" confirmed for index 0, which removed that line
C13_Witness ==
    /\ pc = "find" /\ opPos = 3
    /\ selectedOps = <<InsertNone, ReplaceLong>>
    /\ originalLines = <<LineAB, LineA>>
    /\ patched = <<LineA>>

\* what the script lines are, by the prefix the trimmed line starts with
IsD(l) == StartsWith(Trim(l), PrefixD)
IsM(l) == StartsWith(Trim(l), PrefixM)
IsAF(l) == StartsWith(Trim(l), PrefixAF)
IsMPlus(l) == StartsWith(Trim(l), PrefixMPlus)
IsNAD(l) == StartsWith(Trim(l), PrefixNAD)
IsDirective(l) == IsD(l) \/ IsM(l) \/ IsAF(l)

\* the trimmed text behind a prefix of n characters
Behind(l, n) == Trim(SubSeq(Trim(l), n + 1, Len(Trim(l))))

\* the 1-based positions of the D-, M- and AF+ lines of a script, ascending
DirectiveLines(script) ==
    SelectSeq([k \in 1..Len(script) |-> k], LAMBDA k : IsDirective(script[k]))

\* the last line of the maximal run of M+- lines (for M-) or NAD+ lines (for
\* AF+) right behind line i; i itself when the run is empty
RunEnd(script, i) ==
    LET Goes(l) == IF IsM(script[i]) THEN IsMPlus(l) ELSE IsNAD(l)
    IN  CHOOSE j \in i..Len(script) :
            /\ \A m \in (i + 1)..j : Goes(script[m])
            /\ j = Len(script) \/ ~Goes(script[j + 1])

RunLines(script, i, n) ==
    [m \in 1..(RunEnd(script, i) - i) |-> Behind(script[i + m], n)]

\* the operation the directive in line i stands for
OpOfLine(script, i) ==
    IF IsD(script[i]) THEN [type |-> "delete", content |-> Behind(script[i], 2)]
    ELSE IF IsM(script[i])
    THEN [type |-> "replace", oldLines |-> <<Behind(script[i], 2)>>,
          newLines |-> RunLines(script, i, 3)]
    ELSE [type |-> "insert", anchor |-> Behind(script[i], 3),
          newLines |-> RunLines(script, i, 4)]

ExampleScript == <<ScriptDbar, ScriptMfoo, ScriptMPlusNewfoo, ScriptAFnewfoo, ScriptNADtail>>
ExampleOps ==
    << [type |-> "delete", content |-> <<"b", "a", "r">>],
       [type |-> "replace", oldLines |-> << <<"f", "o", "o">> >>,
        newLines |-> << <<"n", "e", "w", "f", "o", "o">> >>],
       [type |-> "insert", anchor |-> <<"n", "e", "w", "f", "o", "o">>,
        newLines |-> << <<"t", "a", "i", "l">> >>] >>

\* C14: the parsed operations are, in script order, one per D-, M- and AF+ line:
\* a Delete for D-, a Replace for M- with the maximal run of M+- lines right
\* behind it as newLines, an Insert for AF+ with the maximal run of NAD+ lines
\* right behind it; an empty run keeps the operation.  D-bar / M-foo /
\* M+-newfoo / AF+newfoo / NAD+tail parses to Delete(bar), Replace(foo,
\* [newfoo]), Insert(newfoo, [tail]).
C14_ParseCommands ==
    /\ Len(hunks) = Len(DirectiveLines(scriptText))
    /\ \A k \in 1..Len(hunks) : hunks[k] = OpOfLine(scriptText, DirectiveLines(scriptText)[k])
    /\ scriptText = ExampleScript => hunks = ExampleOps

C14_Witness == scriptText = ExampleScript /\ hunks = ExampleOps

\* a Replace with two new lines and, behind it, an Insert whose run is empty
C14_WitnessRuns ==
    /\ scriptText = <<ScriptMfoo, ScriptMPlusNewfoo, ScriptMPlusNewfoo, ScriptAFnewfoo>>
    /\ Len(hunks) = 2
    /\ Len(hunks[1].newLines) = 2
    /\ hunks[2].newLines = <<>>

\* line i is an M+- line that continues an M- line, or a NAD+ line that
\* continues an AF+ line: between the directive and i there is nothing else
Continues(script, i) ==
    \E j \in 1..(i - 1) :
        \/ IsM(script[j]) /\ \A m \in (j + 1)..i : IsMPlus(script[m])
        \/ IsAF(script[j]) /\ \A m \in (j + 1)..i : IsNAD(script[m])

\* the lines that start with none of D-, M-, AF+ and continue no directive
Ignored(script) ==
    {i \in 1..Len(script) : ~IsDirective(script[i]) /\ ~Continues(script, i)}

RECURSIVE NewLinesIn(_)
NewLinesIn(ops) ==
    IF ops = <<>> THEN 0
    ELSE (IF Head(ops).type = "delete" THEN 0 ELSE Len(Head(ops).newLines))
         + NewLinesIn(Tail(ops))

\* a line typed behind the script that is ignored there adds no operation and
\* changes none; a D-, M- or AF+ line typed behind any script adds its operation
C15_Step ==
    \A l \in ScriptLineSet :
        (scriptText' = AddLines(scriptText, <<l>>)) =>
            /\ (~IsDirective(l) /\ Len(scriptText') \in Ignored(scriptText')) => hunks' = hunks
            /\ IsDirective(l) =>
                  /\ Len(hunks') = Len(hunks) + 1
                  /\ SubSeq(hunks', 1, Len(hunks)) = hunks
                  /\ hunks'[Len(hunks')].type =
                        (IF IsD(l) THEN "delete" ELSE IF IsM(l) THEN "replace" ELSE "insert")
                  /\ Target(hunks'[Len(hunks')]) = Behind(l, IF IsAF(l) THEN 3 ELSE 2)

\* C15: a script line that, trimmed, starts with none of D-, M-, AF+ and does
\* not continue an M- or AF+ directive gives no operation and no error, and the
\* lines after it are parsed as before: the operations are as many as the D-,
\* M- and AF+ lines, their new lines as many as the lines that are not ignored
\* and no directive, and every script has its parse.
C15_IgnoredLines ==
    /\ [](/\ error = NULL
          /\ Len(hunks) = Len(DirectiveLines(scriptText))
          /\ NewLinesIn(hunks)
                = Len(scriptText) - Len(DirectiveLines(scriptText))
                  - Cardinality(Ignored(scriptText)))
    /\ [][C15_Step]_vars

\* a note, an M+- line and a NAD+ line that continue nothing, a NAD+ line behind
\* an M- line, and the Delete behind them all
C15_Witness ==
    /\ scriptText = <<ScriptNote, ScriptMPlusNewfoo, ScriptMfoo, ScriptNADtail, ScriptDspaced>>
    /\ hunks = << [type |-> "replace", oldLines |-> << <<"f", "o", "o">> >>, newLines |-> <<>>],
                  [type |-> "delete", content |-> <<"b">>] >>
    /\ error = NULL

\* the tagged list after the first k operations of ops
Tagged(original, ops, k) ==
    AnnotateAll([j \in 1..Len(original) |-> [text |-> original[j], status |-> "unchanged"]],
                SubSeq(ops, 1, k))

\* after is before with op acted on the first entry that is still unchanged and
\* has the normalized text of op's target, and before itself without such entry
AnnotatedBy(before, op, after) ==
    LET hits == {k \in 1..Len(before) :
                    /\ before[k].status = "unchanged"
                    /\ normalize(before[k].text) = normalize(Target(op))}
        new == IF op.type = "delete" THEN <<>> ELSE op.newLines
    IN  IF hits = {} THEN after = before
        ELSE \E i \in hits :
                /\ \A h \in hits : i <= h
                /\ Len(after) = Len(before) + Len(new)
                /\ \A k \in 1..Len(after) :
                      after[k] =
                         IF k < i THEN before[k]
                         ELSE IF k = i
                         THEN [text |-> before[i].text,
                               status |-> IF op.type = "insert" THEN "unchanged" ELSE "deleted"]
                         ELSE IF k <= i + Len(new)
                         THEN [text |-> new[k - i], status |-> "inserted"]
                         ELSE before[k - Len(new)]

C16_Step ==
    Publishing =>
        LET n == Len(selectedOps)
            last == Tagged(originalLines, selectedOps, n)
            changed == SelectSeq([k \in 1..Len(last) |-> k],
                                 LAMBDA k : last[k].status \in {"deleted", "inserted"})
        IN  /\ \A k \in 1..n :
                  AnnotatedBy(Tagged(originalLines, selectedOps, k - 1), selectedOps[k],
                              Tagged(originalLines, selectedOps, k))
            /\ \A k \in 1..Len(last) : last[k].status \in {"unchanged", "deleted", "inserted"}
            /\ annotated' = [k \in 1..Len(changed) |-> last[changed[k]]]

\* C16: buildAnnotatedResult takes the operations in order over the original
\* lines tagged unchanged; each acts on the first entry still unchanged whose
\* normalized text is that of its target (Delete tags it deleted, Replace tags it
\* deleted and puts newLines tagged inserted right behind it, Insert puts
\* newLines tagged inserted right behind it), entries tagged deleted or inserted
\* are not matched again, and the list published is the entries not unchanged,
\* in their final order.
C16_Annotated == [][C16_Step]_vars

\* over [a]: Insert "x" after "a", then Delete "x": the inserted entry is not
\* matched by the Delete and stays the only entry published
C16_Witness ==
    /\ Published
    /\ origText = <<LineA>>
    /\ hunks = <<InsertX, DeleteX>> /\ enabled = <<TRUE, TRUE>>
    /\ annotated = <<[text |-> NewX, status |-> "inserted"]>>

\* C17: the annotated list published by a run is determined by the original
\* text and the selected operations alone: whatever was confirmed or skipped in
\* the dialogs of the run, it is buildAnnotatedResult of the lines of the
\* original text and the operations whose boxes are checked, so two runs over
\* the same text and operations publish the same list.
C17_AnnotatedOfInputsOnly ==
    Published => annotated = buildAnnotatedResult(origText, SelectedOps)

\* over [a, a] the Insert of "x" after "a" was confirmed for the second line:
\* the result text has x last, the annotated list is the one of every such run
C17_Witness ==
    /\ Published
    /\ origText = <<LineA, LineA>>
    /\ hunks = <<InsertX>> /\ enabled = <<TRUE>>
    /\ resultText = <<LineA, LineA, NewX>>
    /\ annotated = <<[text |-> NewX, status |-> "inserted"]>>

\* the same run with the first line confirmed, and with the dialog skipped
C17_WitnessFirst ==
    /\ Published
    /\ origText = <<LineA, LineA>>
    /\ hunks = <<InsertX>> /\ enabled = <<TRUE>>
    /\ resultText = <<LineA, NewX, LineA>>
    /\ annotated = <<[text |-> NewX, status |-> "inserted"]>>

C17_WitnessSkip ==
    /\ Published
    /\ origText = <<LineA, LineA>>
    /\ hunks = <<InsertX>> /\ enabled = <<TRUE>>
    /\ resultText = <<LineA, LineA>>
    /\ annotated = <<[text |-> NewX, status |-> "inserted"]>>

\* the dialog is open for the operation the loop stands at, and every choice
\* names a line of the buffer by its index and shows that line
C18_Pending ==
    /\ pc = "await" =>
          /\ pendingOp = Some(CurrentOp)
          /\ resolveChoice # NULL
          /\ found = NULL
          /\ possibleChoices # <<>>
          /\ \A k \in 1..Len(possibleChoices) :
                /\ possibleChoices[k].idx \in 0..(Len(patched) - 1)
                /\ possibleChoices[k].text = At(patched, possibleChoices[k].idx)
    /\ pc # "await" => (pendingOp = NULL /\ resolveChoice = NULL /\ possibleChoices = <<>>)
    /\ pc = "apply" => found # NULL
    /\ pc = "find" => found = NULL

\* the buffer changes in the step that applies the operation the loop stands
\* at and in no other step of a run, the loop moves on in that step only, and
\* the index confirmed is the index of one of the choices shown
C18_Step ==
    /\ (InRun /\ pc # "apply" /\ pc' # "idle") =>
          (patched' = patched /\ opPos' = opPos /\ selectedOps' = selectedOps)
    /\ (pc = "await" /\ pc' = "apply" /\ ~Get(found').skip) =>
          \E k \in 1..Len(possibleChoices) :
              /\ Get(found').lineIndex = Some(possibleChoices[k].idx)
              /\ At(patched', possibleChoices[k].idx) = possibleChoices[k].text
    /\ pc = "apply" => (pc' = "find" /\ opPos' = opPos + 1)

\* C18: in a run one operation is in flight at a time: while its choice dialog
\* is open the buffer is not changed and the loop does not go on to a later
\* operation; the effect of the operation, or its skip, is committed before the
\* next operation is matched, so the indices shown in the dialog name the same
\* lines when the choice is applied.
C18_OneOperationInFlight == []C18_Pending /\ [][C18_Step]_vars

\* the second operation's dialog, open over the buffer the first one left: the
\* choice shown is line 0 of [ab, x], a line the first operation put there
C18_Witness ==
    /\ pc = "await" /\ opPos = 2
    /\ selectedOps = <<ReplaceA, ReplaceLong>>
    /\ originalLines = <<LineA>>
    /\ patched = <<NewAB, NewX>>
    /\ Len(possibleChoices) = 1
    /\ possibleChoices[1].idx = 0
    /\ userChoice = StringOf(0)

\* the fields parseCommands gives an operation of each type, and no others
Fields(op) ==
    CASE op.type = "delete" -> {"type", "content"}
      [] op.type = "replace" -> {"type", "oldLines", "newLines"}
      [] op.type = "insert" -> {"type", "anchor", "newLines"}

C19_State ==
    /\ hunks = parseCommands(scriptText)
    /\ \A k \in 1..Len(hunks) : DOMAIN hunks[k] = Fields(hunks[k])
    /\ InRun => selectedOps = SelectedOps

C19_Step ==
    (pc # "idle" \/ pc' # "idle") =>
        /\ hunks' = hunks
        /\ enabled' = enabled
        /\ (pc # "idle" /\ pc' # "idle") => selectedOps' = selectedOps

\* C19: an apply run, from Apply to the publication of its results, leaves the
\* parsed operations as they were: the same operations in the same order, each
\* with its type, its target and its newLines and with no other field, so no
\* chosen index, skip flag or candidate is kept on an operation.
C19_OperationsUnchanged == []C19_State /\ [][C19_Step]_vars

\* after a run over [a] in which the Replace of "a" was applied and the dialog
\* of the Replace of "a bX" confirmed, the operations are those parsed
C19_Witness ==
    /\ Published
    /\ origText = <<LineA>>
    /\ hunks = <<ReplaceA, ReplaceLong>> /\ enabled = <<TRUE, TRUE>>
    /\ resultText = <<NewX>>

\* normalize leaves s as it is
Normal(s) == normalize(s) = s

\* C20: normalize is idempotent: for every line typed over letters of both
\* cases, white space, zero-width characters and punctuation, and for every
\* target, normalizing the normalized text gives the normalized text.
C20_NormalizeIdempotent ==
    /\ \A k \in 1..Len(origText) : Normal(normalize(origText[k]))
    /\ \A k \in 1..Len(patched) : Normal(normalize(patched[k]))
    /\ \A k \in 1..Len(hunks) : Normal(normalize(Target(hunks[k])))

\* a line that normalize changes in each of its four steps, found as the
\* exact match of the target "A"
C20_Witness ==
    /\ origText = << <<ZW, SP, "A", TAB>> >>
    /\ ~Normal(origText[1])
    /\ normalize(origText[1]) = <<"a">>
    /\ pc = "apply"
    /\ found = Some([lineIndex |-> Some(0), skip |-> FALSE])

\* the least number of insertions, deletions and substitutions of one
\* character that turn a into b
RECURSIVE EditDistance(_, _)
EditDistance(a, b) ==
    IF a = <<>> THEN Len(b)
    ELSE IF b = <<>> THEN Len(a)
    ELSE LET del == EditDistance(Tail(a), b) + 1
             ins == EditDistance(a, Tail(b)) + 1
             sub == EditDistance(Tail(a), Tail(b)) + (IF Head(a) = Head(b) THEN 0 ELSE 1)
         IN  Min2(del, Min2(ins, sub))

\* C21: levenshtein(a, b) is the edit distance of a and b with insertion,
\* deletion and substitution at cost 1 each; levenshtein(a, a) = 0,
\* levenshtein(a, b) = levenshtein(b, a), levenshtein("", s) = length(s), and
\* levenshtein(a, b) <= levenshtein(a, c) + levenshtein(c, b).
C21_Levenshtein ==
    pc = "find" =>
        \A k \in 1..Len(patched) : \A h \in 1..Len(selectedOps) :
            LET a == normalize(patched[k])
                b == normalize(Target(selectedOps[h]))
            IN  /\ levenshtein(a, b) = EditDistance(a, b)
                /\ levenshtein(a, a) = 0
                /\ levenshtein(a, b) = levenshtein(b, a)
                /\ levenshtein(<<>>, a) = Len(a) /\ levenshtein(a, <<>>) = Len(a)
                /\ \A c \in LevStrings :
                      levenshtein(a, b) <= levenshtein(a, c) + levenshtein(c, b)

\* the line "ab" offered for the target "bab" at the distance 1 taken for it
C21_Witness ==
    /\ pc = "await"
    /\ patched = << <<"a", "b">> >>
    /\ Target(CurrentOp) = <<"b", "a", "b">>
    /\ possibleChoices = <<[idx |-> 0, text |-> <<"a", "b">>, dist |-> 1, exact |-> FALSE]>>

\* the buffer after op has acted at the index i of lines
ActAt(lines, op, i) ==
    CASE op.type = "delete" -> DeleteLine(lines, Some(i))
      [] op.type = "replace" -> ReplaceLine(lines, Some(i), op.newLines)
      [] op.type = "insert" -> InsertLines(lines, Some(i), op.newLines)

\* the buffers one operation can leave of lines: lines itself when it finds
\* nothing or is skipped, the buffer changed at its only exact match, or the
\* buffer changed at a candidate the user confirms
AfterOp(lines, op) ==
    LET m == findLineMatches(lines, Target(op))
    IN  CASE Branch(m) = "none" -> {lines}
          [] Branch(m) = "one" -> {ActAt(lines, op, m.exact[1])}
          [] Branch(m) = "many" ->
                {lines} \cup {ActAt(lines, op, m.exact[k]) : k \in 1..Len(m.exact)}
          [] Branch(m) = "close" ->
                {lines} \cup {ActAt(lines, op, m.close[k].idx) : k \in 1..Len(m.close)}

\* the buffers a run of ops that starts on lines can end with, one for each
\* sequence of answers
RECURSIVE FreshRuns(_, _)
FreshRuns(lines, ops) ==
    IF ops = <<>> THEN {lines}
    ELSE UNION {FreshRuns(b, Tail(ops)) : b \in AfterOp(lines, Head(ops))}

\* Apply pressed
Starting == pc = "idle" /\ pc' = "find"

C22_Step ==
    /\ origText' = origText
    /\ Starting =>
          /\ originalLines' = origText
          /\ patched' = origText
          /\ selectedOps' = SelectedOps
          /\ opPos' = 1
          /\ found' = NULL
    /\ Publishing =>
          /\ resultText' \in {JoinLines(b) : b \in FreshRuns(origText, SelectedOps)}
          /\ patched' = <<>> /\ originalLines' = <<>> /\ selectedOps' = <<>>
          /\ (stats # NULL /\ Cardinality(FreshRuns(origText, SelectedOps)) = 1)
                => resultText' = resultText

\* C22: every run, the first and every later one, starts on a copy of the lines
\* of the original text and leaves the original text as it is; nothing of the
\* buffer is kept when the run is over, and the text a run publishes is the text
\* of a run over the original text and the selected operations alone, so that a
\* run repeated over the same inputs with the same answers publishes the same
\* text again.
C22_FreshCopyEachRun == [][C22_Step]_vars

\* a second run at its end, with the text it is about to publish already
\* displayed by the run before it, and that text not the original text
C22_Witness ==
    /\ pc = "find"
    /\ opPos > Len(selectedOps)
    /\ stats # NULL
    /\ resultText = JoinLines(patched)
    /\ resultText # origText
    /\ originalLines = origText

\* the lines of orig, by position, that op can be annotated at: not tagged
\* deleted so far (gone) and with the normalized text of its target
OriginalHits(orig, gone, op) ==
    {k \in (1..Len(orig)) \ gone : normalize(orig[k]) = normalize(Target(op))}

\* the positions tagged deleted once op is through
GoneWith(orig, gone, op) ==
    LET hits == OriginalHits(orig, gone, op)
    IN  IF hits = {} \/ op.type = "insert" THEN gone
        ELSE gone \cup {CHOOSE k \in hits : \A h \in hits : k <= h}

\* the positions of orig tagged deleted by ops
RECURSIVE GoneAfter(_, _, _)
GoneAfter(orig, gone, ops) ==
    IF ops = <<>> THEN gone
    ELSE GoneAfter(orig, GoneWith(orig, gone, Head(ops)), Tail(ops))

\* the operations of ops that find a line of orig not tagged deleted
RECURSIVE Contributing(_, _, _)
Contributing(orig, gone, ops) ==
    IF ops = <<>> THEN <<>>
    ELSE (IF OriginalHits(orig, gone, Head(ops)) = {} THEN <<>> ELSE <<Head(ops)>>)
         \o Contributing(orig, GoneWith(orig, gone, Head(ops)), Tail(ops))

\* the lines of orig at the positions in set, in their order
RECURSIVE LinesAt(_, _)
LinesAt(orig, set) ==
    IF orig = <<>> THEN <<>>
    ELSE LinesAt(SubSeq(orig, 1, Len(orig) - 1), set)
         \o (IF Len(orig) \in set THEN <<orig[Len(orig)]>> ELSE <<>>)

\* the texts of the entries of list with the status given
TextsOf(list, status) ==
    LET sel == SelectSeq(list, LAMBDA e : e.status = status)
    IN  [k \in 1..Len(sel) |-> sel[k].text]

\* C23: the annotation matches an operation by equality of normalized text
\* against the original lines not yet tagged deleted, and against nothing else:
\* the list published is the list of the operations that find such a line, its
\* deleted entries are the original lines these Deletes and Replaces found, its
\* inserted entries are as many as their new lines, and an operation that finds
\* no such line adds nothing to it, also when the run has applied it on a close
\* match the user confirmed or on a line an earlier operation inserted.  Over
\* ["a"], Insert "x" after "a" and then Delete "x" publish the list [inserted
\* "x"] and the result text "a".
C23_AnnotationOfOriginalLinesOnly ==
    Published =>
        LET con == Contributing(origText, {}, SelectedOps)
            gone == GoneAfter(origText, {}, SelectedOps)
        IN  /\ annotated = buildAnnotatedResult(origText, con)
            /\ TextsOf(annotated, "deleted") = LinesAt(origText, gone)
            /\ Len(TextsOf(annotated, "inserted"))
                  = SumNewLines(OfType(con, "replace")) + SumNewLines(OfType(con, "insert"))
            /\ con = <<>> => annotated = <<>>
            /\ (origText = <<LineA>> /\ SelectedOps = <<InsertX, DeleteX>>) =>
                  /\ annotated = <<[text |-> NewX, status |-> "inserted"]>>
                  /\ resultText = <<LineA>>
            /\ (origText = <<LineA>> /\ SelectedOps = <<ReplaceA, ReplaceLong>>) =>
                  annotated = <<[text |-> LineA, status |-> "deleted"],
                                [text |-> NewAB, status |-> "inserted"],
                                [text |-> NewX, status |-> "inserted"]>>

\* over [a], Replace a by [ab, x] and then the empty Replace of "a bx"
\* confirmed for the close line "ab": the buffer is left as [x], and the list
\* has the first Replace only
C23_Witness ==
    /\ Published
    /\ origText = <<LineA>>
    /\ hunks = <<ReplaceA, ReplaceLong>> /\ enabled = <<TRUE, TRUE>>
    /\ resultText = <<NewX>>
    /\ annotated = <<[text |-> LineA, status |-> "deleted"],
                     [text |-> NewAB, status |-> "inserted"],
                     [text |-> NewX, status |-> "inserted"]>>

\* the run of the example before it publishes: the Delete of "x" has removed
\* the line the Insert had put behind "a"
C23_WitnessExample ==
    /\ pc = "find" /\ opPos = 3
    /\ originalLines = <<LineA>>
    /\ selectedOps = <<InsertX, DeleteX>>
    /\ patched = <<LineA>>

\* the indices of the lines offered in the dialog
CandidateIndices == {possibleChoices[k].idx : k \in 1..Len(possibleChoices)}

\* an index resolved is the index of a line of the buffer; while the dialog is
\* open the radio button checked is the one of a candidate, and every candidate
\* is a line of the buffer
C24_InRange ==
    /\ Resolved => ResolvedIndex \in 0..(Len(patched) - 1)
    /\ pc = "await" =>
          /\ CandidateIndices \subseteq 0..(Len(patched) - 1)
          /\ \E i \in CandidateIndices : userChoice = StringOf(i)

\* the buffer is changed at a resolved index only, the lines before that index
\* stay, and Confirm resolves the index of a candidate
C24_Step ==
    /\ (pc = "apply" /\ patched' # patched) =>
          /\ Resolved
          /\ \A j \in 0..(ResolvedIndex - 1) : At(patched', j) = At(patched, j)
          /\ CurrentOp.type = "insert" => At(patched', ResolvedIndex) = At(patched, ResolvedIndex)
    /\ (pc = "await" /\ pc' = "apply" /\ ~Get(found').skip) =>
          /\ Get(found').lineIndex # NULL
          /\ Get(Get(found').lineIndex) \in CandidateIndices
          /\ StringOf(Get(Get(found').lineIndex)) = userChoice

\* C24: every index at which a run changes the buffer is the index of a line
\* the buffer has at that moment (0 <= i < length), and the index applied after
\* Confirm is the index of one of the candidates the dialog offered.
C24_IndexInBuffer == []C24_InRange /\ [][C24_Step]_vars

\* the empty Replace of "a bx" over [a, " a  B"], confirmed for its only
\* candidate, the close line at index 1, and about to be applied there
C24_Witness ==
    /\ pc = "apply"
    /\ patched = <<LineA, LineAB>>
    /\ CurrentOp = ReplaceLong
    /\ found = Some([lineIndex |-> Some(1), skip |-> FALSE])

\* the dialog opens with the radio button of its first choice checked; that
\* choice is the exact match of lowest index when there are several exact
\* matches, and without an exact match the close line of least distance, the
\* earliest of the buffer among those
C25_Open ==
    (pc = "find" /\ pc' = "await") =>
        LET t == Target(CurrentOp)
            exact == ExactSet(patched, t)
            close == CloseSet(patched, t)
            first == possibleChoices'[1].idx
        IN  /\ userChoice' = StringOf(first)
            /\ exact # {} =>
                  /\ Cardinality(exact) > 1
                  /\ first \in exact
                  /\ \A j \in exact : first <= j
            /\ exact = {} =>
                  /\ first \in close
                  /\ \A j \in close :
                        \/ DistAt(patched, first, t) < DistAt(patched, j, t)
                        \/ DistAt(patched, first, t) = DistAt(patched, j, t) /\ first <= j

\* Confirm with the first choice still checked resolves the index of that choice
C25_Confirm ==
    (/\ pc = "await" /\ pc' = "apply" /\ ~Get(found').skip
     /\ userChoice = StringOf(possibleChoices[1].idx)) =>
        found' = Some([lineIndex |-> Some(possibleChoices[1].idx), skip |-> FALSE])

\* C25: a dialog opens with its first candidate selected, so Confirm pressed
\* with the selection as it is applies the operation at the first candidate:
\* the exact match of lowest index when several lines match exactly, otherwise
\* the close match of smallest distance, the earliest in the buffer among equals.
C25_FirstCandidatePreselected == [][C25_Open /\ C25_Confirm]_vars

\* over [ab, x, " a  B"] the empty Replace of "a bx" has the candidates
\* " a  B" (index 2, distance 1) and "ab" (index 0, distance 2), in this order;
\* Confirm has resolved index 2
C25_Witness ==
    /\ pc = "apply"
    /\ patched = <<NewAB, NewX, LineAB>>
    /\ CurrentOp = ReplaceLong
    /\ found = Some([lineIndex |-> Some(2), skip |-> FALSE])

\* the hunks whose box is checked, in the order of the script
EnabledInOrder ==
    LET idx == {k \in 1..Len(hunks) : enabled[k]}
        nth(j) == CHOOSE k \in idx : Cardinality({h \in idx : h < k}) = j - 1
    IN  [j \in 1..Cardinality(idx) |-> hunks[nth(j)]]

\* a run takes the checked hunks in script order, and what it publishes is
\* what a run over these alone publishes
C26_Run ==
    /\ Starting => selectedOps' = EnabledInOrder
    /\ Publishing =>
          /\ resultText' \in {JoinLines(b) : b \in FreshRuns(origText, EnabledInOrder)}
          /\ annotated' = buildAnnotatedResult(origText, EnabledInOrder)
          /\ stats' = Some([deletes |-> Len(OfType(EnabledInOrder, "delete")),
                            replaces |-> Len(OfType(EnabledInOrder, "replace")),
                            inserts |-> SumNewLines(OfType(EnabledInOrder, "insert"))])

\* a box checked or unchecked changes that box only; a change of the script
\* text parses it again, checks every box and clears what was published
C26_Edit ==
    /\ (enabled' # enabled /\ scriptText' = scriptText) =>
          /\ hunks' = hunks
          /\ \E k \in 1..Len(hunks) :
                enabled' = [enabled EXCEPT ![k] = ~enabled[k]]
          /\ UNCHANGED <<outputVars, error>>
    /\ scriptText' # scriptText =>
          /\ hunks' = parseCommands(scriptText')
          /\ enabled' = [k \in 1..Len(hunks') |-> TRUE]
          /\ resultText' = EmptyText
          /\ annotated' = <<>>
          /\ stats' = NULL
          /\ error' = NULL

\* C26: handleApply applies the hunks whose box is checked, in script order,
\* and no others: an unchecked hunk has no part in the result text, the
\* annotated list or the stats.  Whenever the script text changes the operations
\* are parsed again, every hunk is checked again, and the result text, the
\* annotated list, the stats and the error of before are cleared.
C26_EnabledHunksOnly == [][C26_Run /\ C26_Edit]_vars

\* over [a] with the script [Delete "A", Insert "x" after "a"] and the box of
\* the Delete unchecked: the Insert has found the line the Delete would have
\* removed, and the stats have no Delete
C26_Witness ==
    /\ Published
    /\ origText = <<LineA>>
    /\ hunks = <<DeleteA, InsertX>> /\ enabled = <<FALSE, TRUE>>
    /\ resultText = <<LineA, NewX>>
    /\ annotated = <<[text |-> NewX, status |-> "inserted"]>>
    /\ stats = Some([deletes |-> 0, replaces |-> 0, inserts |-> 1])

\* the pasted listing as parseNumberedCode reads it
Pasted == parseNumberedCode(numberedCode)

\* no two lines of the pasted listing carry the same number
DistinctNumbers ==
    \A i, j \in 1..Len(Pasted) :
        (Pasted[i].num # NULL /\ Pasted[i].num = Pasted[j].num) => i = j

\* the forEach stands at an instruction
AtInstruction == linePc = "forEach" /\ opIndex <= Len(lineOps)

\* the instructions the forEach is through with
Done == SubSeq(lineOps, 1, opIndex - 1)

\* a line of the pasted listing carried n, and no instruction so far removed it
Carried(n) ==
    /\ \E k \in 1..Len(Pasted) : Pasted[k].num = Some(n)
    /\ \A j \in 1..Len(Done) : ~(Done[j].type = "remove" /\ Done[j].lineNum = n)

\* the text of the line that carried n in the pasted listing, or the text the
\* last Replace of line n so far has put in its place
TextOf(n) ==
    LET reps == {j \in 1..Len(Done) : Done[j].type = "replace" /\ Done[j].lineNum = n}
        last == CHOOSE j \in reps : \A h \in reps : h <= j
    IN  IF reps = {} THEN Pasted[CHOOSE k \in 1..Len(Pasted) : Pasted[k].num = Some(n)].text
        ELSE Done[last].newLines[1]

\* code with the line at position k (from 1) removed, replaced by, or followed
\* by newLines
Without(code, k) == SubSeq(code, 1, k - 1) \o SubSeq(code, k + 1, Len(code))
WithInPlace(code, k, newLines) ==
    SubSeq(code, 1, k - 1) \o newLines \o SubSeq(code, k + 1, Len(code))
WithBehind(code, k, newLines) ==
    SubSeq(code, 1, k) \o newLines \o SubSeq(code, k + 1, Len(code))

C27_Step ==
    (AtInstruction /\ DistinctNumbers) =>
        LET op == lineOps[opIndex]
            n == op.lineNum
            at == {k \in 1..Len(parsedLines) : parsedLines[k].num = Some(n)}
        IN  /\ linePc' = "forEach" /\ opIndex' = opIndex + 1 /\ lineOps' = lineOps
            /\ Carried(n) =>
                  /\ Cardinality(at) = 1
                  /\ \A k \in at :
                        /\ newCodeArray[k] = TextOf(n)
                        /\ op.type = "remove" => newCodeArray' = Without(newCodeArray, k)
                        /\ op.type = "replace" =>
                              newCodeArray' = WithInPlace(newCodeArray, k, op.newLines)
                        /\ op.type = "insert" =>
                              newCodeArray' = WithBehind(newCodeArray, k, op.newLines)
            /\ ~Carried(n) => (at = {} /\ newCodeArray' = newCodeArray)

\* the result is the code the last instruction left
C27_Result ==
    (linePc = "forEach" /\ linePc' = "idle") =>
        (opIndex = Len(lineOps) + 1 /\ resultCode' = JoinLines(newCodeArray))

\* C27: in LinePatcher, when the numbers of the pasted listing are distinct,
\* every instruction acts on the line that carried its number in the pasted
\* listing, or on the first line of the replacement of that line, wherever the
\* removals and insertions of the instructions before it have moved it; an
\* instruction whose number no current line carries, because none ever did or
\* because an earlier instruction removed that line, leaves the code as it is,
\* and the instructions after it are applied all the same.
C27_AddressedByPastedNumber == [][C27_Step /\ C27_Result]_vars

\* over the listing [1a, 2 b]: "Remove line 1" has moved line 2 to the top, and
\* "replace LINE  2 with: 1z" has replaced it there
C27_Witness ==
    /\ linePc = "forEach" /\ opIndex = 3
    /\ numberedCode = <<ListingOneA, ListingTwoB>>
    /\ lineOps = <<[type |-> "remove", lineNum |-> 1],
                   [type |-> "replace", lineNum |-> 2, newLines |-> << <<"1", "z">> >>]>>
    /\ newCodeArray = << <<"1", "z">> >>

\* over the same listing "remove line 7 now" has found no line 7 and "Remove
\* line 1" after it has removed line 1
C27_WitnessAbsent ==
    /\ linePc = "forEach" /\ opIndex = 3
    /\ numberedCode = <<ListingOneA, ListingTwoB>>
    /\ lineOps = <<[type |-> "remove", lineNum |-> 7], [type |-> "remove", lineNum |-> 1]>>
    /\ newCodeArray = << <<"b">> >>

\* the numbers the lines of table carry
NumbersOf(table) == {table[k].num : k \in {h \in 1..Len(table) : table[h].num # NULL}}

\* the lines of table that carry a number, by position
Numbered(table) == {k \in 1..Len(table) : table[k].num # NULL}

\* the array of the output lines and the table of the numbered lines have the
\* same length and the same text at every index
C28_Aligned ==
    /\ Len(newCodeArray) = Len(parsedLines)
    /\ \A k \in 1..Len(parsedLines) : newCodeArray[k] = parsedLines[k].text

\* an instruction leaves every number where it was, on the line it was on or on
\* the first line of the replacement of that line, or takes it away with its
\* line; the lines it adds carry none, so the line an instruction finds is never
\* one that an insert added
C28_Step ==
    AtInstruction =>
        LET op == lineOps[opIndex]
            i == findIndex(parsedLines, op.lineNum)
            added == IF i < 0 \/ op.type = "remove" THEN {}
                     ELSE IF op.type = "replace" THEN (i + 2)..(i + Len(op.newLines))
                     ELSE (i + 2)..(i + 1 + Len(op.newLines))
        IN  /\ \A k \in added : parsedLines'[k].num = NULL
            /\ NumbersOf(parsedLines') \subseteq NumbersOf(parsedLines)
            /\ Cardinality(Numbered(parsedLines')) <= Cardinality(Numbered(parsedLines))
            /\ Len(parsedLines') - Cardinality(Numbered(parsedLines'))
                  = Len(parsedLines) - Cardinality(Numbered(parsedLines))
                    + Cardinality(added)
            /\ i >= 0 => parsedLines[i + 1].num = Some(op.lineNum)

\* C28: in LinePatcher the output line array and the numbered-line table are
\* aligned after every instruction, applied or skipped: the same length, and the
\* same text at every index.  The lines an insert adds, and the second and later
\* lines of a replacement, carry no number, so no later instruction addresses
\* them, whatever digits their text starts with.
C28_ArraysAligned == []C28_Aligned /\ [][C28_Step]_vars

\* over the listing [2 b]: "add after line 02:1w" has put the line "1w" behind
\* line 2, and "Remove line 1" after it has found no line 1
C28_Witness ==
    /\ linePc = "forEach" /\ opIndex = 3
    /\ numberedCode = <<ListingTwoB>>
    /\ lineOps = <<[type |-> "insert", lineNum |-> 2, newLines |-> << <<"1", "w">> >>],
                   [type |-> "remove", lineNum |-> 1]>>
    /\ parsedLines = <<[num |-> Some(2), text |-> <<"b">>],
                       [num |-> NULL, text |-> <<"1", "w">>]>>
    /\ newCodeArray = << <<"b">>, <<"1", "w">> >>

====
